---- MODULE Spec2Model ----
(***************************************************************************)
(* A model of the CSP parser of northwood-labs/csp-parser: the Parse entry *)
(* point, its directive handlers and token classifiers, and the            *)
(* Reporting-Endpoints header parser.  Strings are TLA+ strings, read      *)
(* character by character with Len and SubSeq, so that splitting,          *)
(* trimming, case folding and the regular expressions are computed the     *)
(* way the Go code computes them.                                          *)
(***************************************************************************)
EXTENDS Integers, Sequences, FiniteSets, TLC

\* ------------------------------------------------------------------------
\* Bounds of the model
\* ------------------------------------------------------------------------

\* Total number of `;`-separated segments in all policy strings of one call.
MaxSegments == 2

\* Number of `,`-separated token-pairs in a Reporting-Endpoints header.
MaxPairs == 2

\* Number of value tokens handed to a directive handler.
MaxValues == 2

\* Number of calls of Parse made one after the other.
MaxCalls == 2

\* Number of characters of the strings generated for the token classifiers.
MaxChars == 3

\* ------------------------------------------------------------------------
\* Strings (Go's strings and regexp packages, on the ASCII the model uses)
\* ------------------------------------------------------------------------

At(s, i) == SubSeq(s, i, i)

CharsOf(s) == {At(s, i) : i \in 1..Len(s)}

UPPER == CharsOf("ABCDEFGHIJKLMNOPQRSTUVWXYZ")

DIGIT == CharsOf("0123456789")

ALPHA == CharsOf("abcdefghijklmnopqrstuvwxyz") \cup UPPER

ALNUM == ALPHA \cup DIGIT

\* unicode.IsSpace / the regexp class \s, restricted to ASCII
SPACE == {" ", "\t", "\n", "\r", "\f"}

Min(S) == CHOOSE x \in S : \A y \in S : x <= y

Max(S) == CHOOSE x \in S : \A y \in S : x >= y

\* strings.Contains(s, c) for a one-character c
Contains(s, c) == \E i \in 1..Len(s) : At(s, i) = c

\* strings.TrimSpace
TrimSpace(s) ==
    LET keep == {i \in 1..Len(s) : At(s, i) \notin SPACE}
    IN  IF keep = {} THEN "" ELSE SubSeq(s, Min(keep), Max(keep))

\* strings.Split(s, sep) for a one-character sep: always at least one piece
RECURSIVE SplitFrom(_, _, _, _)
SplitFrom(s, sep, start, i) ==
    IF i > Len(s) THEN <<SubSeq(s, start, Len(s))>>
    ELSE IF At(s, i) = sep
         THEN <<SubSeq(s, start, i - 1)>> \o SplitFrom(s, sep, i + 1, i + 1)
         ELSE SplitFrom(s, sep, start, i + 1)

Split(s, sep) == SplitFrom(s, sep, 1, 1)

\* reWhitespace.ReplaceAllString(s, " ") with reWhitespace = `\s+`
RECURSIVE CollapseFrom(_, _)
CollapseFrom(s, i) ==
    IF i > Len(s) THEN ""
    ELSE IF At(s, i) \in SPACE
         THEN IF i > 1 /\ At(s, i - 1) \in SPACE
              THEN CollapseFrom(s, i + 1)
              ELSE " " \o CollapseFrom(s, i + 1)
         ELSE At(s, i) \o CollapseFrom(s, i + 1)

ReplaceWhitespace(s) == CollapseFrom(s, 1)

\* unicode.ToLower on the ASCII letters
LowerMap ==
    [u \in UPPER |->
        At("abcdefghijklmnopqrstuvwxyz",
           CHOOSE n \in 1..Len("ABCDEFGHIJKLMNOPQRSTUVWXYZ") : At("ABCDEFGHIJKLMNOPQRSTUVWXYZ", n) = u)]

LowerChar(c) == IF c \in UPPER THEN LowerMap[c] ELSE c

\* strings.ToLower
RECURSIVE ToLowerFrom(_, _)
ToLowerFrom(s, i) ==
    IF i > Len(s) THEN "" ELSE LowerChar(At(s, i)) \o ToLowerFrom(s, i + 1)

ToLower(s) == ToLowerFrom(s, 1)

\* strings.EqualFold
EqualFold(s, t) == Len(s) = Len(t) /\ ToLower(s) = ToLower(t)

\* The last position reached from position p by reading characters of the
\* class C only
RECURSIVE RunEnd(_, _, _)
RunEnd(s, p, C) ==
    IF p < Len(s) /\ At(s, p + 1) \in C THEN RunEnd(s, p + 1, C) ELSE p

\* Positions reachable from a position of P by reading zero or more
\* characters of the class C (the regexp fragment [C]*).
StarFrom(s, P, C) == UNION {p..RunEnd(s, p, C) : p \in P}

\* The regexp fragment [C]+
PlusFrom(s, P, C) == UNION {(p + 1)..RunEnd(s, p, C) : p \in P}

\* A literal: positions after reading lit from a position of P
LitFrom(s, P, lit) ==
    {p + Len(lit) : p \in {q \in P : q + Len(lit) <= Len(s) /\ SubSeq(s, q + 1, q + Len(lit)) = lit}}

\* ------------------------------------------------------------------------
\* Token classifiers
\* ------------------------------------------------------------------------

\* The class [a-zA-Z0-9+-.] of reSchemePart and reHostSource: `+-.` is the
\* range from `+` to `.`, which holds `+`, `,`, `-` and `.`.
SchemeClass == ALNUM \cup {"+", ",", "-", "."}

\* reSchemePart = `^[a-zA-Z][a-zA-Z0-9+-.]*:$`
isSchemeSource(s) ==
    /\ Len(s) >= 2
    /\ At(s, 1) \in ALPHA
    /\ At(s, Len(s)) = ":"
    /\ \A k \in 2..(Len(s) - 1) : At(s, k) \in SchemeClass

\* An optional literal: the regexp fragment (lit)?
OptLit(s, P, lit) == P \cup LitFrom(s, P, lit)

\* One pass of the group (\*|(\*)?\.?([a-zA-Z0-9-]+)) of reHostSource
HostGroup(s, P) ==
    LitFrom(s, P, "*") \cup PlusFrom(s, OptLit(s, OptLit(s, P, "*"), "."), ALNUM \cup {"-"})

\* The group repeated: the positions are closed under one more pass
RECURSIVE HostGroupPlus(_, _)
HostGroupMore(s, P, Q) == IF Q = P THEN P ELSE HostGroupPlus(s, Q)

HostGroupPlus(s, P) == HostGroupMore(s, P, P \cup HostGroup(s, P))

\* One pass of the group (/[^/]+) of reHostSource
PathGroup(s, P) == PlusFrom(s, LitFrom(s, P, "/"), CharsOf(s) \ {"/"})

RECURSIVE PathGroupStar(_, _)
PathGroupMore(s, P, Q) == IF Q = P THEN P ELSE PathGroupStar(s, Q)

PathGroupStar(s, P) == PathGroupMore(s, P, P \cup PathGroup(s, P))

\* The group ([a-zA-Z][a-zA-Z0-9+-.]*://)? of reHostSource
SchemePart(s) ==
    {0} \cup LitFrom(s, StarFrom(s, IF Len(s) >= 1 /\ At(s, 1) \in ALPHA THEN {1} ELSE {},
                                  SchemeClass), "://")

\* What may follow the `:` of the group (:(\*|[0-9]+))?
PortValue(s, colon) == LitFrom(s, colon, "*") \cup PlusFrom(s, colon, DIGIT)

PortPart(s, host) == host \cup PortValue(s, LitFrom(s, host, ":"))

\* reHostSource =
\* `^([a-zA-Z][a-zA-Z0-9+-.]*://)?(\*|(\*)?\.?([a-zA-Z0-9-]+))+(:(\*|[0-9]+))?(/[^/]+)*$`
reHostSource(s) ==
    Len(s) \in PathGroupStar(s, PortPart(s, HostGroupPlus(s, HostGroup(s, SchemePart(s)))))

\* reIPv4Dumb = `^(([0-9]{1,3}[.]){3}[0-9]{1,3})$`
DottedQuad(parts) ==
    /\ Len(parts) = 4
    /\ \A n \in 1..4 : Len(parts[n]) \in 1..3 /\ CharsOf(parts[n]) \subseteq DIGIT

reIPv4Dumb(s) == DottedQuad(Split(s, "."))

\* A host-source check without the test for dotted quads
isHostSourceAnyQuad(s) == s = "127.0.0.1" \/ reHostSource(s)

isHostSource(s) == s = "127.0.0.1" \/ (reHostSource(s) /\ ~reIPv4Dumb(s))

KeywordSources ==
    {"'self'", "'report-sample'", "'strict-dynamic'", "'unsafe-eval'", "'unsafe-hashes'",
     "'unsafe-inline'", "'unsafe-allow-redirects'", "'wasm-unsafe-eval'"}

isKeywordSource(s) == \E k \in KeywordSources : EqualFold(s, k)

SandboxSources ==
    {"allow-downloads", "allow-forms", "allow-modals", "allow-orientation-lock",
     "allow-pointer-lock", "allow-popups", "allow-popups-to-escape-sandbox",
     "allow-presentation", "allow-same-origin", "allow-scripts", "allow-top-navigation",
     "allow-top-navigation-by-user-activation", "allow-top-navigation-to-custom-protocols"}

isSandboxSource(s) == \E k \in SandboxSources : EqualFold(s, k)

\* The tail [a-zA-Z0-9+/]*={0,2} of reNonceSource and reHashSource
UpToTwoEquals(m, body) == body \cup LitFrom(m, body, "=") \cup LitFrom(m, body, "==")

Base64Tail(m) == Len(m) \in UpToTwoEquals(m, StarFrom(m, {0}, ALNUM \cup {"+", "/"}))

\* A quoted token '<prefix><base64>' with the prefix read without regard to case
QuotedBase64(s, prefix) ==
    /\ Len(s) >= Len(prefix) + 1
    /\ ToLower(SubSeq(s, 1, Len(prefix))) = prefix
    /\ At(s, Len(s)) = "'"
    /\ Base64Tail(SubSeq(s, Len(prefix) + 1, Len(s) - 1))

\* reNonceSource = `^(?i)'nonce-[a-zA-Z0-9+/]*={0,2}'$`
isNonceSource(s) == QuotedBase64(s, "'nonce-") /\ Len(s) > 9

\* reHashSource = `^(?i)'sha(256|384|512)-[a-zA-Z0-9+/]*={0,2}'$`
isHashSource(s) ==
    /\ \E algo \in {"'sha256-", "'sha384-", "'sha512-"} : QuotedBase64(s, algo)
    /\ Len(s) > 10

MediaTopTypes ==
    {"application", "audio", "font", "example", "image", "message", "model", "multipart",
     "text", "video"}

\* reMediaType = `^(?i)(application|...|video)/[a-zA-Z0-9_./+-]+$`
isMediaType(s) ==
    \E t \in MediaTopTypes :
        /\ Len(s) >= Len(t) + 2
        /\ ToLower(SubSeq(s, 1, Len(t) + 1)) = t \o "/"
        /\ \A k \in (Len(t) + 2)..Len(s) : At(s, k) \in ALNUM \cup {"_", ".", "/", "+", "-"}

isWebRTCSource(s) == EqualFold(s, "'allow'") \/ EqualFold(s, "'block'")

\* url.Parse of the WHATWG URL library, without a base URL, on the strings the
\* model uses: a URL needs a scheme (a letter, then letters, digits, `+`, `-`,
\* `.`, then `:`); a special scheme needs a non-empty host of letters, digits,
\* `-`, `.` with an optional numeric port; what follows the first `#` is the
\* fragment.
SpecialSchemes == {"http", "https", "ws", "wss", "ftp"}

\* The first position of s that holds a character of C, 0 when there is none
FirstIndex(s, C) ==
    LET hits == {k \in 1..Len(s) : At(s, k) \in C}
    IN  IF hits = {} THEN 0 ELSE Min(hits)

\* The first position of s that holds a character outside C, 0 when there is none
FirstOutside(s, C) ==
    LET hits == {k \in 1..Len(s) : At(s, k) \notin C}
    IN  IF hits = {} THEN 0 ELSE Min(hits)

\* s before (after) position k; all of s (nothing) when k = 0
Before(s, k) == IF k = 0 THEN s ELSE SubSeq(s, 1, k - 1)

After(s, k) == IF k = 0 THEN "" ELSE SubSeq(s, k + 1, Len(s))

\* s from position k on; nothing when k = 0
From(s, k) == IF k = 0 THEN "" ELSE SubSeq(s, k, Len(s))

\* The scheme of s when colon is the first position outside the scheme class
urlScheme(s, colon) ==
    IF colon >= 2 /\ At(s, 1) \in ALPHA /\ At(s, colon) = ":"
    THEN ToLower(SubSeq(s, 1, colon - 1)) ELSE ""

\* The host and port of a special URL: <<host>> or <<host, port>>
urlHostOK(hp) ==
    /\ Len(hp) \in 1..2
    /\ hp[1] # ""
    /\ CharsOf(hp[1]) \subseteq ALNUM \cup {"-", "."}
    /\ Len(hp) = 2 => CharsOf(hp[2]) \subseteq DIGIT

urlAuthority(auth) == Split(Before(auth, FirstIndex(auth, {"/", "\\", "?"})), ":")

urlHostPort(body) == urlAuthority(From(body, FirstOutside(body, {"/", "\\"})))

urlResult(scheme, rest, hash) ==
    [err         |-> scheme = ""
                       \/ (scheme \in SpecialSchemes /\ ~urlHostOK(urlHostPort(Before(rest, hash)))),
     scheme      |-> scheme,
     hasFragment |-> hash # 0,
     fragment    |-> After(rest, hash)]

urlParts(scheme, rest) == urlResult(scheme, rest, FirstIndex(rest, {"#"}))

urlAfterScheme(s, colon) == urlParts(urlScheme(s, colon), SubSeq(s, colon + 1, Len(s)))

urlParse(s) == urlAfterScheme(s, FirstOutside(s, ALNUM \cup {"+", "-", "."}))

\* The URL is valid when it parses and Href(true) = Href(false), that is when
\* it carries no fragment.
urlIsValid(url) == ~url.err /\ ~url.hasFragment

isValidReportingURL(s) == urlIsValid(urlParse(s))

\* reToken = "^[0-9a-zA-Z!#$%&'*+-.^_`|~]+$", where `+-.` is again a range.
\* The backquote cannot be written in a TLA+ string; no input of the model has one.
isValidToken(s) ==
    /\ Len(s) >= 1
    /\ CharsOf(s) \subseteq ALNUM \cup CharsOf("!#$%&'*^_|~") \cup {"+", ",", "-", "."}

\* ------------------------------------------------------------------------
\* Errors (hashicorp/go-multierror): an ordered list of formatted messages,
\* each kept as its format and its arguments
\* ------------------------------------------------------------------------

Error(msg, args) == [msg |-> msg, args |-> args]

\* An error appended under a condition
ErrorIf(cond, msg, args) == IF cond THEN <<Error(msg, args)>> ELSE <<>>

\* A *multierror.Error handed back as an error without ErrorOrNil: an
\* interface value that is never nil
ErrorTyped(list) == [isNil |-> FALSE, Errors |-> list]

\* (*multierror.Error).ErrorOrNil: nil when the list holds no error
ErrorOrNil(list) == [isNil |-> Len(list) = 0, Errors |-> list]

\* ------------------------------------------------------------------------
\* ParseReportingEndpoint
\* ------------------------------------------------------------------------

errNoEquals    == "[ERROR] token-pair %s does not contain an = character"
errMissingComma == "[ERROR] %s appears to be missing a comma between token-pairs"
errKeyOrValue  == "[ERROR] token-pair %s is missing either a key or value"
errMissingKey  == "[ERROR] token-pair %s is missing a key"
errInvalidKey  == "[ERROR] token-pair %s has a key with invalid characters"
errMissingURL  == "[ERROR] token-pair %s is missing a URL"
errNotQuoted   == "[ERROR] token-pair %s URL is not enclosed in double quotes"
errInvalidURL  == "[ERROR] token-pair %s URL is not a valid URL"

\* The checks on the quotes of the value, url[0:1] and url[len(url)-1:]
hasQuotes(url) == At(url, 1) = "\"" /\ At(url, Len(url)) = "\""

\* url[1 : len(url)-1] panics (slice bounds out of range) when len(url) < 2
unquotePanics(url) == Len(url) < 2

unquote(url) == SubSeq(url, 2, Len(url) - 1)

\* What one iteration of the loop does with tokenPairList[i]:
\* "skip", "error" (with msg), "store" (with key and url) or "panic".
Outcome(kind, msg, tokenPair, key, url) ==
    [kind |-> kind, msg |-> msg, tokenPair |-> tokenPair, key |-> key, url |-> url]

Fail(msg, tokenPair) == Outcome("error", msg, tokenPair, "", "")

\* The checks on the unquoted URL
UnquotedChecks(tokenPair, key, url) ==
    IF ~isValidReportingURL(url) THEN Fail(errInvalidURL, tokenPair)
    ELSE Outcome("store", "", tokenPair, key, url)

\* The checks on key := token[0] and url := token[1]
KeyURLChecks(tokenPair, key, url) ==
    IF key = "" THEN Fail(errMissingKey, tokenPair)
    ELSE IF ~isValidToken(key) THEN Fail(errInvalidKey, tokenPair)
    ELSE IF url = "" THEN Fail(errMissingURL, tokenPair)
    ELSE IF ~hasQuotes(url) THEN Fail(errNotQuoted, tokenPair)
    ELSE IF unquotePanics(url) THEN Outcome("panic", "", tokenPair, key, url)
    ELSE UnquotedChecks(tokenPair, key, unquote(url))

\* The check on token := strings.Split(tokenPair, "=")
TokenChecks(tokenPair, token) ==
    IF Len(token) # 2 THEN Fail(errKeyOrValue, tokenPair)
    ELSE KeyURLChecks(tokenPair, token[1], token[2])

\* The checks on tokenPair := strings.TrimSpace(tokenPairList[i])
TokenPairChecks(tokenPair) ==
    IF tokenPair = "" THEN Outcome("skip", "", tokenPair, "", "")
    ELSE IF ~Contains(tokenPair, "=") THEN Fail(errNoEquals, tokenPair)
    ELSE IF Contains(tokenPair, " ") THEN Fail(errMissingComma, tokenPair)
    ELSE TokenChecks(tokenPair, Split(tokenPair, "="))

PairOutcome(raw) == TokenPairChecks(TrimSpace(raw))

\* A map that keeps the value a key already has
MapPutKeepFirst(m, k, v) == m @@ (k :> v)

\* values[key] = url
MapPut(m, k, v) == (k :> v) @@ m

\* The effect of an outcome on the accumulator [values, errs, panic]
ApplyOutcome(acc, o) ==
    IF acc.panic \/ o.kind = "skip" THEN acc
    ELSE IF o.kind = "error" THEN
        [acc EXCEPT !.errs = Append(@, Error(o.msg, <<o.tokenPair>>))]
    ELSE IF o.kind = "panic" THEN [acc EXCEPT !.panic = TRUE]
    ELSE [acc EXCEPT !.values = MapPut(@, o.key, o.url)]

\* The loop body
ParsePair(acc, raw) == ApplyOutcome(acc, PairOutcome(raw))

RECURSIVE ParsePairs(_, _, _)
ParsePairs(acc, list, n) ==
    IF n > Len(list) THEN acc ELSE ParsePairs(ParsePair(acc, list[n]), list, n + 1)

\* The whole call: [values, errs, panic]; the caller gets values and
\* errs.ErrorOrNil() unless the call panicked.
ParseReportingEndpoint(s) ==
    ParsePairs([values |-> <<>>, errs |-> <<>>, panic |-> FALSE], Split(s, ","), 1)

\* ------------------------------------------------------------------------
\* Error messages of the directive parser (the backquotes of the Go formats
\* are left out)
\* ------------------------------------------------------------------------

errCSP0001 == "[INFO] currentURL is empty, so validation of 'self' sources is disabled [CSP-0001]"
errCSP0002 == "[INFO] reportingEndpointsHeader is empty, so validation of report-to is disabled [CSP-0002]"
errCSP0100 == "[ERROR] directive %s has an invalid value %s [CSP-0100]"
errCSP0200 == "[ERROR] directive %s has an invalid value %s [CSP-0200]"
errCSP0300 == "[ERROR] directive %s has an invalid value %s [CSP-0300]"
errCSP0400 == "[ERROR] directive %s has an invalid value %s [CSP-0400]"
errCSP0401 == "[ERROR] directive %s: could not parse as a URL: %s [CSP-0401]"
errCSP0402 == "[ERROR] directive %s: URL %s is missing a SCHEME, which is required [CSP-0402]"
errCSP0403 == "[ERROR] directive %s: URL %s includes a FRAGMENT, which is disallowed [CSP-0403]"
errCSP0501 == "[ERROR] directive %s may only have a single value [CSP-0501]"
errCSP0502 == "[ERROR] directive %s refers to undefined reporting endpoint %s [CSP-0502]"
errCSP0512 == "[ERROR] token-pair %s is missing either a key or value [CSP-0512]"
errCSP0600 == "[ERROR] directive %s has an invalid value %s [CSP-0600]"
errCSP0601 == "[ERROR] directive %s may only have a single value [CSP-0601]"
errCSP0700 == "[ERROR] directive %s has an invalid value %s [CSP-0700]"
errCSP0801 == "[ERROR] directive %s is obsolete; use upgrade-insecure-requests instead [CSP-0801]"
errCSP0802 == "[ERROR] directive %s is deprecated; use frame-src and/or worker-src instead [CSP-0802]"
errCSP0803 == "[ERROR] directive %s was experimental in CSP3, but should now be removed from CSP policies [CSP-0803]"
errCSP0804 == "[ERROR] directive %s is obsolete; remove this directive from the policy [CSP-0804]"
errCSP0805 == "[WARN] directive %s is valid in CSP2, but will be deprecated in CSP3 [CSP-0805]"
errCSP0901 == "[ERROR] unknown directive %s [CSP-0901]"

\* ------------------------------------------------------------------------
\* The policy document
\* ------------------------------------------------------------------------

\* The fields of Policy that hold one SourceListItem per occurrence, by the
\* lower-cased directive name that fills them
SourceListField ==
    [x \in {"base-uri", "child-src", "connect-src", "default-src", "font-src", "form-action",
            "frame-src", "img-src", "manifest-src", "media-src", "object-src", "script-src",
            "script-src-attr", "script-src-elem", "style-src", "style-src-attr",
            "style-src-elem", "worker-src"} |->
        CASE x = "base-uri" -> "BaseURI"
          [] x = "child-src" -> "ChildSource"
          [] x = "connect-src" -> "ConnectSource"
          [] x = "default-src" -> "DefaultSource"
          [] x = "font-src" -> "FontSource"
          [] x = "form-action" -> "FormAction"
          [] x = "frame-src" -> "FrameSource"
          [] x = "img-src" -> "ImageSource"
          [] x = "manifest-src" -> "ManifestSource"
          [] x = "media-src" -> "MediaSource"
          [] x = "object-src" -> "ObjectSource"
          [] x = "script-src" -> "ScriptSource"
          [] x = "script-src-attr" -> "ScriptSourceAttr"
          [] x = "script-src-elem" -> "ScriptSourceElem"
          [] x = "style-src" -> "StyleSource"
          [] x = "style-src-attr" -> "StyleSourceAttr"
          [] x = "style-src-elem" -> "StyleSourceElem"
          [] x = "worker-src" -> "WorkerSource"]

\* &Policy{}
Policy ==
    [Info |-> <<>>, WebRTC |-> [Value |-> ""],
     ChildSource |-> <<>>, ConnectSource |-> <<>>, DefaultSource |-> <<>>,
     FontSource |-> <<>>, FormAction |-> <<>>, FrameSource |-> <<>>, ImageSource |-> <<>>,
     ManifestSource |-> <<>>, MediaSource |-> <<>>, ObjectSource |-> <<>>,
     ScriptSource |-> <<>>, ScriptSourceAttr |-> <<>>, ScriptSourceElem |-> <<>>,
     StyleSource |-> <<>>, StyleSourceAttr |-> <<>>, StyleSourceElem |-> <<>>,
     WorkerSource |-> <<>>, FrameAncestors |-> <<>>, PluginTypes |-> <<>>,
     ReportTo |-> <<>>, ReportURI |-> <<>>, Sandbox |-> <<>>, BaseURI |-> <<>>,
     BlockAllMixedContent |-> FALSE, UpgradeInsecureReq |-> FALSE]

\* SourceExpr{}
SourceExpr ==
    [SchemeSource |-> "", HostSource |-> "", KeywordSource |-> "", NonceSource |-> "",
     HashSource |-> "", None |-> FALSE]

\* AncestorExpr{}
AncestorExpr == [SchemeSource |-> "", HostSource |-> "", None |-> FALSE]

\* ------------------------------------------------------------------------
\* Directive handlers.  A handler fills its collector and returns its
\* errors: here it yields [item, errs].
\* ------------------------------------------------------------------------

\* The switch of handleSourceExpr with `'none'` compared without regard to case
SourceExprBranchFold(v) ==
    IF EqualFold(v, "'none'") THEN "None"
    ELSE IF isSchemeSource(v) THEN "SchemeSource"
    ELSE IF isHostSource(v) THEN "HostSource"
    ELSE IF isKeywordSource(v) THEN "KeywordSource"
    ELSE IF isNonceSource(v) THEN "NonceSource"
    ELSE IF isHashSource(v) THEN "HashSource"
    ELSE "default"

\* The case the switch of handleSourceExpr takes for a value
SourceExprBranch(v) ==
    IF v = "'none'" THEN "None"
    ELSE IF isSchemeSource(v) THEN "SchemeSource"
    ELSE IF isHostSource(v) THEN "HostSource"
    ELSE IF isKeywordSource(v) THEN "KeywordSource"
    ELSE IF isNonceSource(v) THEN "NonceSource"
    ELSE IF isHashSource(v) THEN "HashSource"
    ELSE "default"

\* A case body that also records the scheme of a host-source
SourceExprTakenBoth(acc, v, key, branch) ==
    IF branch = "default" THEN
        [acc EXCEPT !.errs = Append(@, Error(errCSP0100, <<key, v>>))]
    ELSE IF branch = "HostSource" THEN
        [acc EXCEPT !.item.SourceExprs =
            Append(@, [SourceExpr EXCEPT !.HostSource = v, !.SchemeSource = "https:"])]
    ELSE [acc EXCEPT !.item.SourceExprs =
              Append(@, [SourceExpr EXCEPT ![branch] = IF branch = "None" THEN TRUE ELSE v])]

\* A case body that rejects `'none'` after another expression
SourceExprTakenExclusive(acc, v, key, branch) ==
    IF branch = "default" \/ (branch = "None" /\ acc.item.SourceExprs # <<>>) THEN
        [acc EXCEPT !.errs = Append(@, Error(errCSP0100, <<key, v>>))]
    ELSE [acc EXCEPT !.item.SourceExprs =
              Append(@, [SourceExpr EXCEPT ![branch] = IF branch = "None" THEN TRUE ELSE v])]

\* The body of the case taken: one SourceExpr with one field set is appended,
\* or one error is
SourceExprTaken(acc, v, key, branch) ==
    IF branch = "default" THEN
        [acc EXCEPT !.errs = Append(@, Error(errCSP0100, <<key, v>>))]
    ELSE [acc EXCEPT !.item.SourceExprs =
              Append(@, [SourceExpr EXCEPT ![branch] = IF branch = "None" THEN TRUE ELSE v])]

SourceExprCase(acc, v, key) == SourceExprTaken(acc, v, key, SourceExprBranch(v))

\* A frame-ancestors loop body that takes keyword-sources as hosts
AncestorExprCaseKeywords(acc, v, key) ==
    LET add(e) == [acc EXCEPT !.item.AncestorExprs = Append(@, e)]
    IN  IF v = "'none'" THEN add([AncestorExpr EXCEPT !.None = TRUE])
        ELSE IF isSchemeSource(v) THEN add([AncestorExpr EXCEPT !.SchemeSource = v])
        ELSE IF isHostSource(v) \/ isKeywordSource(v) THEN add([AncestorExpr EXCEPT !.HostSource = v])
        ELSE [acc EXCEPT !.errs = Append(@, Error(errCSP0200, <<key, v>>))]

\* One iteration of the loop of handleAncestorExpr
AncestorExprCase(acc, v, key) ==
    LET add(e) == [acc EXCEPT !.item.AncestorExprs = Append(@, e)]
    IN  IF v = "'none'" THEN add([AncestorExpr EXCEPT !.None = TRUE])
        ELSE IF isSchemeSource(v) THEN add([AncestorExpr EXCEPT !.SchemeSource = v])
        ELSE IF isHostSource(v) THEN add([AncestorExpr EXCEPT !.HostSource = v])
        ELSE [acc EXCEPT !.errs = Append(@, Error(errCSP0200, <<key, v>>))]

\* One iteration of the loop of handlePluginTypes
PluginTypeCase(acc, v, key) ==
    IF isMediaType(v) THEN [acc EXCEPT !.item.MediaTypes = Append(@, v)]
    ELSE [acc EXCEPT !.errs = Append(@, Error(errCSP0300, <<key, v>>))]

\* One iteration of the loop of handleReportingURLs.  When the value does not
\* parse, the break leaves the switch after CSP-0401 alone.
\* The default case of the switch, with url, err := url.Parse(values[i])
InvalidURLErrors(acc, v, key, url) ==
    IF url.err THEN [acc EXCEPT !.errs = Append(@, Error(errCSP0401, <<key, v>>))]
    ELSE [acc EXCEPT !.errs = @ \o ErrorIf(url.scheme = "", errCSP0402, <<key, v>>)
                                \o ErrorIf(url.fragment # "", errCSP0403, <<key, v>>)
                                \o <<Error(errCSP0400, <<key, v>>)>>]

ReportingURLCase(acc, v, key) ==
    IF isValidReportingURL(v) THEN [acc EXCEPT !.item.URLs = Append(@, v)]
    ELSE InvalidURLErrors(acc, v, key, urlParse(v))

\* A sandbox loop body that stores the token in lower case
SandboxCaseLower(acc, v, key) ==
    IF isSandboxSource(v) THEN [acc EXCEPT !.item.Allow = Append(@, ToLower(v))]
    ELSE [acc EXCEPT !.errs = Append(@, Error(errCSP0700, <<key, v>>))]

\* One iteration of the loop of handleSandbox
SandboxCase(acc, v, key) ==
    IF isSandboxSource(v) THEN [acc EXCEPT !.item.Allow = Append(@, v)]
    ELSE [acc EXCEPT !.errs = Append(@, Error(errCSP0700, <<key, v>>))]

\* The body of the loop of the handler named
HandlerCase(handler, acc, v, key) ==
    CASE handler = "handleSourceExpr" -> SourceExprCase(acc, v, key)
      [] handler = "handleAncestorExpr" -> AncestorExprCase(acc, v, key)
      [] handler = "handlePluginTypes" -> PluginTypeCase(acc, v, key)
      [] handler = "handleReportingURLs" -> ReportingURLCase(acc, v, key)
      [] handler = "handleSandbox" -> SandboxCase(acc, v, key)

\* for i := range values { switch { ... } }: the loop of a handler over its
\* values, in order
RECURSIVE ValuesLoop(_, _, _, _, _)
ValuesLoop(handler, acc, values, key, n) ==
    IF n > Len(values) THEN acc
    ELSE ValuesLoop(handler, HandlerCase(handler, acc, values[n], key), values, key, n + 1)

handleSourceExpr(values, key) ==
    ValuesLoop("handleSourceExpr", [item |-> [SourceExprs |-> <<>>], errs |-> <<>>], values, key, 1)

handleAncestorExpr(values, key) ==
    ValuesLoop("handleAncestorExpr", [item |-> [AncestorExprs |-> <<>>], errs |-> <<>>], values, key, 1)

handlePluginTypes(values, key) ==
    ValuesLoop("handlePluginTypes", [item |-> [MediaTypes |-> <<>>], errs |-> <<>>], values, key, 1)

handleReportingURLs(values, key) ==
    ValuesLoop("handleReportingURLs", [item |-> [URLs |-> <<>>], errs |-> <<>>], values, key, 1)

handleSandbox(values, key) ==
    ValuesLoop("handleSandbox", [item |-> [Allow |-> <<>>], errs |-> <<>>], values, key, 1)

handleWebRTC(value, key) ==
    IF isWebRTCSource(value) THEN [item |-> [Value |-> value], errs |-> <<>>]
    ELSE [item |-> [Value |-> ""], errs |-> <<Error(errCSP0600, <<key, value>>)>>]

\* handleReportTo parses the header again at every call; a panic of
\* ParseReportingEndpoint goes up through it.  Tokens is a nil map (the empty
\* function) unless the endpoint is defined.
ResolveEndpoint(value, key, parsed) ==
    IF parsed.panic THEN [item |-> [Tokens |-> <<>>], errs |-> <<>>, panic |-> TRUE]
    ELSE IF value \in DOMAIN parsed.values THEN
        [item |-> [Tokens |-> (value :> parsed.values[value])], errs |-> parsed.errs,
         panic |-> FALSE]
    ELSE
        [item |-> [Tokens |-> <<>>],
         errs |-> Append(parsed.errs, Error(errCSP0502, <<key, value>>)),
         panic |-> FALSE]

handleReportTo(value, key, header) ==
    ResolveEndpoint(value, key, ParseReportingEndpoint(header))

\* ------------------------------------------------------------------------
\* Parse: the work done for one `;`-separated segment of a policy string.
\* The locals of Parse are kept in st = [parsedPolicy, errs, key, values,
\* panic]; key and values are declared outside the loops and keep their
\* last values.
\* ------------------------------------------------------------------------

ExperimentalDirectives == {"navigate-to", "prefetch-src", "referrer"}

\* The case of the switch that a lower-cased directive name selects
Family(name) ==
    IF name \in DOMAIN SourceListField THEN "source-list"
    ELSE IF name \in ExperimentalDirectives THEN "experimental"
    ELSE IF name \in {"block-all-mixed-content", "frame-ancestors", "plugin-types",
                      "report-to", "report-uri", "sandbox", "upgrade-insecure-requests",
                      "webrtc"} THEN name
    ELSE "unknown"

\* The split of a directive whose runs of whitespace are not collapsed
KVNoCollapse(raw) == Split(TrimSpace(raw), " ")

\* kv := strings.Split(directive, " ") after trimming and collapsing whitespace
KV(raw) == Split(ReplaceWhitespace(TrimSpace(raw)), " ")

\* values[0] panics (index out of range) when the directive has no value
firstValuePanics(values) == Len(values) = 0

AddErrs(st, list) == [st EXCEPT !.errs = @ \o list]

\* A store that assigns the collector to the field instead of appending it
StoreOverwrite(st, field, h, advisory) ==
    AddErrs([st EXCEPT !.parsedPolicy[field] = <<h.item>>], h.errs \o advisory)

\* A store that records the advisory of the directive before the handler's errors
StoreAdvisoryFirst(st, field, h, advisory) ==
    AddErrs([st EXCEPT !.parsedPolicy[field] = Append(@, h.item)], advisory \o h.errs)

\* errs = multierror.Append(errs, <handler>) and
\* parsedPolicy.<field> = append(parsedPolicy.<field>, *<collector>),
\* then the advisory of the directive, if it has one
Store(st, field, h, advisory) ==
    AddErrs([st EXCEPT !.parsedPolicy[field] = Append(@, h.item)], h.errs \o advisory)

\* A source-list case without the advisory of child-src
SourceListAdvisoryNone(st) == <<>>

\* The advisory that follows the handler of a deprecated source-list directive
SourceListAdvisory(st) == ErrorIf(ToLower(st.key) = "child-src", errCSP0802, <<st.key>>)

CaseSourceList(st) ==
    Store(st, SourceListField[ToLower(st.key)], handleSourceExpr(st.values, st.key),
          SourceListAdvisory(st))

CaseBlockAllMixedContent(st) ==
    AddErrs([st EXCEPT !.parsedPolicy.BlockAllMixedContent = TRUE],
            <<Error(errCSP0801, <<st.key>>)>>)

\* A flag directive that rejects value tokens
CaseUpgradeStrict(st) ==
    AddErrs([st EXCEPT !.parsedPolicy.UpgradeInsecureReq = TRUE],
            ErrorIf(Len(st.values) > 0, errCSP0100, <<st.key, st.values>>))

CaseUpgradeInsecureRequests(st) == [st EXCEPT !.parsedPolicy.UpgradeInsecureReq = TRUE]

CaseFrameAncestors(st) ==
    Store(st, "FrameAncestors", handleAncestorExpr(st.values, st.key), <<>>)

CaseExperimental(st) == AddErrs(st, <<Error(errCSP0803, <<st.key>>)>>)

CasePluginTypes(st) ==
    Store(st, "PluginTypes", handlePluginTypes(st.values, st.key),
          <<Error(errCSP0804, <<st.key>>)>>)

\* if len(values) != 1 { errs = multierror.Append(errs, fmt.Errorf(msg, key)) }
SingleValueCheck(st, msg) == AddErrs(st, ErrorIf(Len(st.values) # 1, msg, <<st.key>>))

Panic(st) == [st EXCEPT !.panic = TRUE]

StoreReportTo(st, h) == IF h.panic THEN Panic(st) ELSE Store(st, "ReportTo", h, <<>>)

ReportToValue(st, header) ==
    IF firstValuePanics(st.values) THEN Panic(st)
    ELSE StoreReportTo(st, handleReportTo(st.values[1], st.key, header))

CaseReportTo(st, header) == ReportToValue(SingleValueCheck(st, errCSP0501), header)

CaseReportURI(st) ==
    Store(st, "ReportURI", handleReportingURLs(st.values, st.key),
          <<Error(errCSP0805, <<st.key>>)>>)

CaseSandbox(st) == Store(st, "Sandbox", handleSandbox(st.values, st.key), <<>>)

\* parsedPolicy.WebRTC = *webrtcToken
StoreWebRTC(st, h) == AddErrs([st EXCEPT !.parsedPolicy.WebRTC = h.item], h.errs)

WebRTCValue(st) ==
    IF firstValuePanics(st.values) THEN Panic(st)
    ELSE StoreWebRTC(st, handleWebRTC(st.values[1], st.key))

CaseWebRTC(st) == WebRTCValue(SingleValueCheck(st, errCSP0601))

\* The default case naming the directive by its lower-cased name
CaseDefaultLower(st) == AddErrs(st, <<Error(errCSP0901, <<ToLower(st.key)>>)>>)

CaseDefault(st) == AddErrs(st, <<Error(errCSP0901, <<st.key>>)>>)

\* The switch on strings.ToLower(key)
Switch(st, fam, header) ==
    CASE fam = "source-list" -> CaseSourceList(st)
      [] fam = "block-all-mixed-content" -> CaseBlockAllMixedContent(st)
      [] fam = "upgrade-insecure-requests" -> CaseUpgradeInsecureRequests(st)
      [] fam = "frame-ancestors" -> CaseFrameAncestors(st)
      [] fam = "experimental" -> CaseExperimental(st)
      [] fam = "plugin-types" -> CasePluginTypes(st)
      [] fam = "report-to" -> CaseReportTo(st, header)
      [] fam = "report-uri" -> CaseReportURI(st)
      [] fam = "sandbox" -> CaseSandbox(st)
      [] fam = "webrtc" -> CaseWebRTC(st)
      [] OTHER -> CaseDefault(st)

\* key = kv[0]; values = kv[1:]
SetKeyValues(st, kv) == [st EXCEPT !.key = kv[1], !.values = Tail(kv)]

Dispatch(st, header) == Switch(st, Family(ToLower(st.key)), header)

\* The body of the loop over rawDirectives
ProcessDirective(st, raw, header) ==
    IF st.panic \/ TrimSpace(raw) = "" THEN st
    ELSE Dispatch(SetKeyValues(st, KV(raw)), header)

\* The advisories recorded before the first policy
ConfigAdvisories(url, header) ==
    ErrorIf(url = "", errCSP0001, <<>>) \o ErrorIf(header = "", errCSP0002, <<>>)

\* The whole of Parse as one computation: [parsedPolicies, errs, key, values, panic]
RECURSIVE DirectivesLoop(_, _, _, _)
DirectivesLoop(st, raws, n, header) ==
    IF n > Len(raws) THEN st
    ELSE DirectivesLoop(ProcessDirective(st, raws[n], header), raws, n + 1, header)

\* parsedPolicies = append(parsedPolicies, parsedPolicy), unless the loop panicked
EndOfPolicy(acc, st) ==
    [parsedPolicies |-> IF st.panic THEN acc.parsedPolicies
                        ELSE Append(acc.parsedPolicies, st.parsedPolicy),
     errs |-> st.errs, key |-> st.key, values |-> st.values, panic |-> st.panic]

PolicyLoopBody(acc, policy, header) ==
    IF acc.panic THEN acc
    ELSE EndOfPolicy(acc, DirectivesLoop([parsedPolicy |-> Policy, errs |-> acc.errs,
                                          key |-> acc.key, values |-> acc.values,
                                          panic |-> FALSE],
                                         Split(policy, ";"), 1, header))

RECURSIVE PoliciesLoop(_, _, _, _)
PoliciesLoop(acc, list, n, header) ==
    IF n > Len(list) THEN acc
    ELSE PoliciesLoop(PolicyLoopBody(acc, list[n], header), list, n + 1, header)

ParseRun(url, header, list) ==
    PoliciesLoop([parsedPolicies |-> <<>>, errs |-> ConfigAdvisories(url, header),
                  key |-> "", values |-> <<>>, panic |-> FALSE], list, 1, header)

\* ------------------------------------------------------------------------
\* Inputs
\* ------------------------------------------------------------------------

CurrentURLs == {"", "https://example.com"}

ReportingEndpointsHeaders ==
    {"",
     "e1=\"https://a.io/r\"",
     "e1=\"https://a.io/r\", e2",
     "e1=\""}

\* Raw text between two `;` of a policy string
Segments ==
    {"",
     "script-src 'self' 'nonce-rAnd0m'",
     "script-src 'none' bad! https:",
     "Script-Src example.com",
     "style-src",
     "child-src 'self'",
     "frame-ancestors https://a.io 'self'",
     "plugin-types text/html bad",
     "report-uri https://a.io/r /r",
     "report-to e1",
     "report-to e9",
     "report-to",
     "report-to e1 e2",
     "sandbox allow-forms bad",
     "webrtc 'allow'",
     "webrtc yes",
     "webrtc",
     "webrtc 'allow' 'block'",
     "upgrade-insecure-requests",
     "upgrade-insecure-requests a",
     "\t ",
     " script-src \t 'self'  ",
     "report-uri https://a.io/#f",
     "block-all-mixed-content x",
     "navigate-to x",
     "Foo-Bar baz"}

\* The lists of policy strings made of at most n segments in all
RECURSIVE PolicyLists(_)
PolicyLists(n) ==
    IF n = 0 THEN {<<>>}
    ELSE LET less == PolicyLists(n - 1)
         IN  less
             \cup {Append(l, g) : l \in less, g \in Segments}
             \cup {[l EXCEPT ![Len(l)] = @ \o ";" \o g] :
                     l \in {m \in less : Len(m) > 0}, g \in Segments}

\* Raw text between two `,` of a Reporting-Endpoints header
TokenPairs ==
    {"",
     "endpoint-1=\"https://example.com/reports\"",
     " endpoint-1=\"wss://b.io/r2\" ",
     "e2=\"https://a.io/r\"",
     "endpoint-1 \"https://example.com/reports\"",
     "e1=\"https://a.io/r1\" e2=\"https://a.io/r2\"",
     "e1=\"https://a.io/r1\" e1=\"https://a.io/r2\"",
     "e1=\"https://a.io/?x=1\"",
     "=\"https://a.io/r\"",
     "e:1=\"https://a.io/r\"",
     "e1=",
     "e1=https://a.io/r\"",
     "e1=\"https://a.io/r",
     "e1='https://a.io/r'",
     "e1=\"/r\"",
     "e1=\"https://a.io/#f\"",
     "e1=\"\"",
     "e1=\""}

\* The headers made of 1 to n token-pairs
RECURSIVE HeaderStrings(_)
HeaderStrings(n) ==
    IF n = 1 THEN TokenPairs
    ELSE LET less == HeaderStrings(n - 1)
         IN  less \cup {h \o "," \o g : h \in less, g \in TokenPairs}

SourceTokens ==
    {"'none'", "'NONE'", "https:", "a,b:", "example.com", "https://a.io/r", "127.0.0.1",
     "1.2.3.4", "'self'", "'Unsafe-Inline'", "'nonce-rAnd0m'", "'nonce-'", "'sha256-ab=='",
     "bad!"}

SourceKeys == {"script-src", "IMG-SRC"}

\* The policy strings of a call of Parse that follows another
AgainLists == {<<>>, <<"style-src;report-to e1">>, <<"webrtc 'allow'", "Foo-Bar baz">>}

\* The handlers of the directives that take a list of values, each with the
\* directive name and the value tokens it is called with
ListHandlers == {"handleSourceExpr", "handleAncestorExpr", "handlePluginTypes", "handleSandbox"}

ListKey(handler) ==
    CASE handler = "handleSourceExpr" -> "script-src"
      [] handler = "handleAncestorExpr" -> "Frame-Ancestors"
      [] handler = "handlePluginTypes" -> "plugin-types"
      [] handler = "handleSandbox" -> "sandbox"

ListTokens(handler) ==
    CASE handler = "handleSourceExpr" -> SourceTokens
      [] handler = "handleAncestorExpr" ->
            {"'none'", "'NONE'", "https:", "example.com", "*.a.io", "'self'", "'Unsafe-Inline'",
             "'nonce-rAnd0m'", "'sha256-ab=='", "bad!"}
      [] handler = "handlePluginTypes" -> {"text/html", "Image/PNG", "text/", "bad"}
      [] handler = "handleSandbox" -> {"allow-forms", "Allow-Scripts", "allow-", "bad"}

\* The strings of at most n characters of A
RECURSIVE StringsUpTo(_, _)
StringsUpTo(A, n) ==
    IF n = 0 THEN {""}
    ELSE LET less == StringsUpTo(A, n - 1)
         IN  less \cup {s \o c : s \in less, c \in A}

\* Arguments of isSchemeSource
SchemeInputs == StringsUpTo({"a", "Z", "1", "+", ",", "-", ".", "/", ":"}, MaxChars)

\* Arguments of isHostSource: dotted quads and other hosts
HostInputs ==
    {a \o "." \o b \o "." \o c \o "." \o d : a, b, c, d \in {"0", "1", "127", "999"}}
        \cup {"1.2.3", "1.2.3.4.5", "1234.1.1.1", "example.com", "*.a.io", "a.io:80",
              "127.0.0.1:80", "https://1.2.3.4", "1.2.3.4/p", "bad!", ""}

\* The value parts of nonce and hash tokens
Base64Inputs == StringsUpTo({"a", "Z", "+", "/", "=", "!"}, MaxChars)

\* Arguments of isNonceSource
NonceInputs ==
    {p \o b \o q : p \in {"'nonce-", "'NONCE-", "nonce-", "'nonce"}, b \in Base64Inputs,
                    q \in {"'", ""}}

\* Arguments of isHashSource
HashInputs ==
    {p \o b \o q : p \in {"'sha256-", "'SHA384-", "'sha512-", "'sha1-", "sha256-"},
                    b \in Base64Inputs, q \in {"'", ""}}

\* The sequences of at most n elements of S
RECURSIVE SeqsUpTo(_, _)
SeqsUpTo(S, n) ==
    IF n = 0 THEN {<<>>}
    ELSE LET less == SeqsUpTo(S, n - 1)
         IN  less \cup {Append(q, x) : q \in less, x \in S}

\* ------------------------------------------------------------------------
\* State
\* ------------------------------------------------------------------------

VARIABLES
    \* Parse: its arguments, its locals, its position and its results
    \* (calls counts the calls of Parse begun so far)
    calls, currentURL, reportingEndpointsHeader, policies,
    pc, j, i, rawDirectives, key, values, parsedPolicy, parsedPolicies, errs, err,
    \* ParseReportingEndpoint called on its own: argument, locals, position, results
    reHeader, rePc, tokenPairList, reI, reValues, reErrs, reErr,
    \* handleSourceExpr called on its own: arguments, collector, position, result
    srcKey, srcValues, srcPc, srcI, listItem, srcErrs,
    \* A token classifier called on its own: the function, its argument, its result
    clsFn, clsInput, clsPc, clsResult,
    \* A value-list handler called on its own: the handler, its arguments, its
    \* collector, its position, its errors
    lstHandler, lstKey, lstValues, lstPc, lstI, lstItem, lstErrs

parseVars ==
    <<calls, currentURL, reportingEndpointsHeader, policies, pc, j, i, rawDirectives, key, values,
      parsedPolicy, parsedPolicies, errs, err>>

reVars == <<reHeader, rePc, tokenPairList, reI, reValues, reErrs, reErr>>

srcVars == <<srcKey, srcValues, srcPc, srcI, listItem, srcErrs>>

clsVars == <<clsFn, clsInput, clsPc, clsResult>>

lstVars == <<lstHandler, lstKey, lstValues, lstPc, lstI, lstItem, lstErrs>>

vars == <<parseVars, reVars, srcVars, clsVars, lstVars>>

ParseIdle ==
    /\ calls = 0
    /\ currentURL = "" /\ reportingEndpointsHeader = "" /\ policies = <<>>
    /\ pc = "idle" /\ j = 0 /\ i = 0 /\ rawDirectives = <<>> /\ key = "" /\ values = <<>>
    /\ parsedPolicy = Policy /\ parsedPolicies = <<>> /\ errs = <<>>
    /\ err = ErrorOrNil(<<>>)

REIdle ==
    /\ reHeader = "" /\ rePc = "idle" /\ tokenPairList = <<>> /\ reI = 0
    /\ reValues = <<>> /\ reErrs = <<>> /\ reErr = ErrorOrNil(<<>>)

ClsIdle == clsFn = "" /\ clsInput = "" /\ clsPc = "idle" /\ clsResult = FALSE

LstIdle ==
    /\ lstHandler = "" /\ lstKey = "" /\ lstValues = <<>> /\ lstPc = "idle" /\ lstI = 0
    /\ lstItem = <<>> /\ lstErrs = <<>>

SrcIdle ==
    /\ srcKey = "" /\ srcValues = <<>> /\ srcPc = "idle" /\ srcI = 0
    /\ listItem = [SourceExprs |-> <<>>] /\ srcErrs = <<>>

\* ------------------------------------------------------------------------
\* Parse, one step per loop iteration, split where the switch selects its case.
\* pc is "start", "policy" (the head of the outer loop), "directive" (the head
\* of the inner loop), the name of the case the switch selected, "panic" or
\* "done".
\* ------------------------------------------------------------------------

ParseInit ==
    /\ calls = 1
    /\ currentURL \in CurrentURLs
    /\ reportingEndpointsHeader \in ReportingEndpointsHeaders
    /\ policies \in PolicyLists(MaxSegments)
    /\ pc = "start" /\ j = 0 /\ i = 0 /\ rawDirectives = <<>> /\ key = "" /\ values = <<>>
    /\ parsedPolicy = Policy /\ parsedPolicies = <<>> /\ errs = <<>>
    /\ err = ErrorOrNil(<<>>)

Init == ParseInit /\ REIdle /\ SrcIdle /\ ClsIdle /\ LstIdle

\* The two checks on the arguments, before the loop over policies
Start ==
    /\ pc = "start"
    /\ errs' = ConfigAdvisories(currentURL, reportingEndpointsHeader)
    /\ pc' = "policy"
    /\ UNCHANGED <<calls, currentURL, reportingEndpointsHeader, policies, j, i, rawDirectives, key,
                   values, parsedPolicy, parsedPolicies, err>>
    /\ UNCHANGED <<reVars, srcVars, clsVars, lstVars>>

\* A loop over policies whose iterations share one Policy
BeginPolicyShared ==
    /\ pc = "policy" /\ j < Len(policies)
    /\ rawDirectives' = Split(policies[j + 1], ";")
    /\ i' = 0
    /\ pc' = "directive"
    /\ UNCHANGED <<calls, currentURL, reportingEndpointsHeader, policies, j, key, values,
                   parsedPolicy, parsedPolicies, errs, err>>
    /\ UNCHANGED <<reVars, srcVars, clsVars, lstVars>>

\* The head of the loop over policies: split policies[j], start a new Policy
BeginPolicy ==
    /\ pc = "policy" /\ j < Len(policies)
    /\ rawDirectives' = Split(policies[j + 1], ";")
    /\ parsedPolicy' = Policy
    /\ i' = 0
    /\ pc' = "directive"
    /\ UNCHANGED <<calls, currentURL, reportingEndpointsHeader, policies, j, key, values,
                   parsedPolicies, errs, err>>
    /\ UNCHANGED <<reVars, srcVars, clsVars, lstVars>>

\* if directive == "" { continue }
SkipEmpty ==
    /\ pc = "directive" /\ i < Len(rawDirectives)
    /\ TrimSpace(rawDirectives[i + 1]) = ""
    /\ i' = i + 1
    /\ UNCHANGED <<calls, currentURL, reportingEndpointsHeader, policies, pc, j, rawDirectives, key,
                   values, parsedPolicy, parsedPolicies, errs, err>>
    /\ UNCHANGED <<reVars, srcVars, clsVars, lstVars>>

\* kv := strings.Split(directive, " "); key = kv[0]; values = kv[1:]; then
\* switch strings.ToLower(key): control is at the case selected
SplitDirective ==
    /\ pc = "directive" /\ i < Len(rawDirectives)
    /\ TrimSpace(rawDirectives[i + 1]) # ""
    /\ key' = KV(rawDirectives[i + 1])[1]
    /\ values' = Tail(KV(rawDirectives[i + 1]))
    /\ pc' = Family(ToLower(key'))
    /\ UNCHANGED <<calls, currentURL, reportingEndpointsHeader, policies, j, i, rawDirectives,
                   parsedPolicy, parsedPolicies, errs, err>>
    /\ UNCHANGED <<reVars, srcVars, clsVars, lstVars>>

\* The locals the switch reads and writes
Locals ==
    [parsedPolicy |-> parsedPolicy, errs |-> errs, key |-> key, values |-> values,
     panic |-> FALSE]

\* The end of an iteration: the locals are written back; a panic ends the call
Commit(st) ==
    /\ parsedPolicy' = st.parsedPolicy
    /\ errs' = st.errs
    /\ pc' = IF st.panic THEN "panic" ELSE "directive"
    /\ i' = IF st.panic THEN i ELSE i + 1
    /\ UNCHANGED <<calls, currentURL, reportingEndpointsHeader, policies, j, rawDirectives, key,
                   values, parsedPolicies, err>>
    /\ UNCHANGED <<reVars, srcVars, clsVars, lstVars>>

DirSourceList == pc = "source-list" /\ Commit(CaseSourceList(Locals))

DirBlockAllMixedContent ==
    pc = "block-all-mixed-content" /\ Commit(CaseBlockAllMixedContent(Locals))

DirUpgradeInsecureRequests ==
    pc = "upgrade-insecure-requests" /\ Commit(CaseUpgradeInsecureRequests(Locals))

DirFrameAncestors == pc = "frame-ancestors" /\ Commit(CaseFrameAncestors(Locals))

DirExperimental == pc = "experimental" /\ Commit(CaseExperimental(Locals))

DirPluginTypes == pc = "plugin-types" /\ Commit(CasePluginTypes(Locals))

DirReportTo == pc = "report-to" /\ Commit(CaseReportTo(Locals, reportingEndpointsHeader))

DirReportURI == pc = "report-uri" /\ Commit(CaseReportURI(Locals))

DirSandbox == pc = "sandbox" /\ Commit(CaseSandbox(Locals))

DirWebRTC == pc = "webrtc" /\ Commit(CaseWebRTC(Locals))

DirDefault == pc = "unknown" /\ Commit(CaseDefault(Locals))

\* The foot of the loop over policies
EndPolicy ==
    /\ pc = "directive" /\ i = Len(rawDirectives)
    /\ parsedPolicies' = Append(parsedPolicies, parsedPolicy)
    /\ j' = j + 1
    /\ pc' = "policy"
    /\ UNCHANGED <<calls, currentURL, reportingEndpointsHeader, policies, i, rawDirectives, key,
                   values, parsedPolicy, errs, err>>
    /\ UNCHANGED <<reVars, srcVars, clsVars, lstVars>>

\* return parsedPolicies, errs.ErrorOrNil()
Return ==
    /\ pc = "policy" /\ j = Len(policies)
    /\ err' = ErrorOrNil(errs)
    /\ pc' = "done"
    /\ UNCHANGED <<calls, currentURL, reportingEndpointsHeader, policies, j, i, rawDirectives, key,
                   values, parsedPolicy, parsedPolicies, errs>>
    /\ UNCHANGED <<reVars, srcVars, clsVars, lstVars>>

\* Variables that outlive the call
DeclaredStatic ==
    [key |-> key, values |-> values, errs |-> errs, parsedPolicies |-> parsedPolicies]

\* var ( key string; values []string; errs *multierror.Error; ...
\* parsedPolicies = []*Policy{} ): the variables of Parse are its own, new at
\* every call
Declared == [key |-> "", values |-> <<>>, errs |-> <<>>, parsedPolicies |-> <<>>]

\* Parse is called again after it has returned
CallAgain ==
    /\ pc = "done" /\ calls < MaxCalls
    /\ calls' = calls + 1
    /\ currentURL' \in CurrentURLs
    /\ policies' \in AgainLists
    /\ key' = Declared.key /\ values' = Declared.values
    /\ errs' = Declared.errs /\ parsedPolicies' = Declared.parsedPolicies
    /\ pc' = "start" /\ j' = 0 /\ i' = 0 /\ rawDirectives' = <<>>
    /\ parsedPolicy' = Policy
    /\ err' = ErrorOrNil(<<>>)
    /\ UNCHANGED reportingEndpointsHeader
    /\ UNCHANGED <<reVars, srcVars, clsVars, lstVars>>

Next ==
    \/ Start
    \/ BeginPolicy
    \/ SkipEmpty
    \/ SplitDirective
    \/ DirSourceList
    \/ DirBlockAllMixedContent
    \/ DirUpgradeInsecureRequests
    \/ DirFrameAncestors
    \/ DirExperimental
    \/ DirPluginTypes
    \/ DirReportTo
    \/ DirReportURI
    \/ DirSandbox
    \/ DirWebRTC
    \/ DirDefault
    \/ EndPolicy
    \/ Return
    \/ CallAgain

Spec == Init /\ [][Next]_vars

\* ------------------------------------------------------------------------
\* ParseReportingEndpoint called on its own, one step per token-pair
\* ------------------------------------------------------------------------

REInit ==
    /\ reHeader \in HeaderStrings(MaxPairs)
    /\ rePc = "start" /\ tokenPairList = <<>> /\ reI = 0
    /\ reValues = <<>> /\ reErrs = <<>> /\ reErr = ErrorOrNil(<<>>)

InitRE == REInit /\ ParseIdle /\ SrcIdle /\ ClsIdle /\ LstIdle

\* tokenPairList := strings.Split(reportingEndpointsHeader, ",")
RESplit ==
    /\ rePc = "start"
    /\ tokenPairList' = Split(reHeader, ",")
    /\ rePc' = "pair"
    /\ UNCHANGED <<reHeader, reI, reValues, reErrs, reErr>>
    /\ UNCHANGED <<parseVars, srcVars, clsVars, lstVars>>

\* One iteration of the loop, on a token-pair whose checks end as kind says
REStep(kind, acc) ==
    /\ rePc = "pair" /\ reI < Len(tokenPairList)
    /\ PairOutcome(tokenPairList[reI + 1]).kind = kind
    /\ reValues' = acc.values
    /\ reErrs' = acc.errs
    /\ rePc' = IF acc.panic THEN "panic" ELSE "pair"
    /\ reI' = IF acc.panic THEN reI ELSE reI + 1
    /\ UNCHANGED <<reHeader, tokenPairList, reErr>>
    /\ UNCHANGED <<parseVars, srcVars, clsVars, lstVars>>

\* if tokenPair == "" { continue }
RESkip == REStep("skip", ParsePair([values |-> reValues, errs |-> reErrs, panic |-> FALSE],
                                   tokenPairList[reI + 1]))

\* A failed check: errs = multierror.Append(errs, ...); continue
REError == REStep("error", ParsePair([values |-> reValues, errs |-> reErrs, panic |-> FALSE],
                                     tokenPairList[reI + 1]))

\* values[key] = url
REStore == REStep("store", ParsePair([values |-> reValues, errs |-> reErrs, panic |-> FALSE],
                                     tokenPairList[reI + 1]))

\* url = url[1 : len(url)-1] with len(url) = 1
REPanic == REStep("panic", ParsePair([values |-> reValues, errs |-> reErrs, panic |-> FALSE],
                                     tokenPairList[reI + 1]))

\* return values, errs.ErrorOrNil()
REReturn ==
    /\ rePc = "pair" /\ reI = Len(tokenPairList)
    /\ reErr' = ErrorOrNil(reErrs)
    /\ rePc' = "done"
    /\ UNCHANGED <<reHeader, tokenPairList, reI, reValues, reErrs>>
    /\ UNCHANGED <<parseVars, srcVars, clsVars, lstVars>>

NextRE ==
    \/ RESplit
    \/ RESkip
    \/ REError
    \/ REStore
    \/ REPanic
    \/ REReturn

SpecRE == InitRE /\ [][NextRE]_vars

\* ------------------------------------------------------------------------
\* handleSourceExpr called on its own, one step per value token
\* ------------------------------------------------------------------------

SrcInit ==
    /\ srcKey \in SourceKeys
    /\ srcValues \in SeqsUpTo(SourceTokens, MaxValues)
    /\ srcPc = "loop" /\ srcI = 0
    /\ listItem = [SourceExprs |-> <<>>] /\ srcErrs = <<>>

InitSrc == SrcInit /\ ParseIdle /\ REIdle /\ ClsIdle /\ LstIdle

\* One iteration of the loop
SrcStep(acc) ==
    /\ srcPc = "loop" /\ srcI < Len(srcValues)
    /\ listItem' = acc.item
    /\ srcErrs' = acc.errs
    /\ srcI' = srcI + 1
    /\ UNCHANGED <<srcKey, srcValues, srcPc>>
    /\ UNCHANGED <<parseVars, reVars, clsVars, lstVars>>

\* A case that appends the value as one of the variants
SrcAppend ==
    /\ srcI < Len(srcValues) /\ SourceExprBranch(srcValues[srcI + 1]) # "default"
    /\ SrcStep(SourceExprCase([item |-> listItem, errs |-> srcErrs], srcValues[srcI + 1], srcKey))

\* The default case: the value is invalid
SrcInvalid ==
    /\ srcI < Len(srcValues) /\ SourceExprBranch(srcValues[srcI + 1]) = "default"
    /\ SrcStep(SourceExprCase([item |-> listItem, errs |-> srcErrs], srcValues[srcI + 1], srcKey))

\* return listItem, errs.ErrorOrNil()
SrcReturn ==
    /\ srcPc = "loop" /\ srcI = Len(srcValues)
    /\ srcPc' = "done"
    /\ UNCHANGED <<srcKey, srcValues, srcI, listItem, srcErrs>>
    /\ UNCHANGED <<parseVars, reVars, clsVars, lstVars>>

NextSrc ==
    \/ SrcAppend
    \/ SrcInvalid
    \/ SrcReturn

SpecSrc == InitSrc /\ [][NextSrc]_vars

\* ------------------------------------------------------------------------
\* A value-list handler called on its own, one step per value token
\* ------------------------------------------------------------------------

\* listItem := &SourceListItem{}, ancestorListItem := &AncestorSourceListItem{},
\* mediaTypeItem := &MediaTypeListItem{}, sandboxToken := &SandboxToken{}
Collector(handler) ==
    CASE handler = "handleSourceExpr" -> [SourceExprs |-> <<>>]
      [] handler = "handleAncestorExpr" -> [AncestorExprs |-> <<>>]
      [] handler = "handlePluginTypes" -> [MediaTypes |-> <<>>]
      [] handler = "handleSandbox" -> [Allow |-> <<>>]

LstInit ==
    /\ lstHandler \in ListHandlers
    /\ lstKey = ListKey(lstHandler)
    /\ lstValues \in SeqsUpTo(ListTokens(lstHandler), MaxValues)
    /\ lstPc = "loop" /\ lstI = 0
    /\ lstItem = Collector(lstHandler) /\ lstErrs = <<>>

InitLst == LstInit /\ ParseIdle /\ REIdle /\ SrcIdle /\ ClsIdle

\* One iteration of the loop of the handler
LstStep(acc) ==
    /\ lstItem' = acc.item
    /\ lstErrs' = acc.errs
    /\ lstI' = lstI + 1
    /\ UNCHANGED <<lstHandler, lstKey, lstValues, lstPc>>
    /\ UNCHANGED <<parseVars, reVars, srcVars, clsVars>>

\* A case that appends the value to the collector
LstAccept ==
    /\ lstPc = "loop" /\ lstI < Len(lstValues)
    /\ HandlerCase(lstHandler, [item |-> lstItem, errs |-> lstErrs], lstValues[lstI + 1],
                   lstKey).errs = lstErrs
    /\ LstStep(HandlerCase(lstHandler, [item |-> lstItem, errs |-> lstErrs],
                           lstValues[lstI + 1], lstKey))

\* The default case: the value is invalid
LstReject ==
    /\ lstPc = "loop" /\ lstI < Len(lstValues)
    /\ HandlerCase(lstHandler, [item |-> lstItem, errs |-> lstErrs], lstValues[lstI + 1],
                   lstKey).errs # lstErrs
    /\ LstStep(HandlerCase(lstHandler, [item |-> lstItem, errs |-> lstErrs],
                           lstValues[lstI + 1], lstKey))

\* return errs
LstReturn ==
    /\ lstPc = "loop" /\ lstI = Len(lstValues)
    /\ lstPc' = "done"
    /\ UNCHANGED <<lstHandler, lstKey, lstValues, lstI, lstItem, lstErrs>>
    /\ UNCHANGED <<parseVars, reVars, srcVars, clsVars>>

NextLst ==
    \/ LstAccept
    \/ LstReject
    \/ LstReturn

SpecLst == InitLst /\ [][NextLst]_vars

\* ------------------------------------------------------------------------
\* A token classifier called on its own
\* ------------------------------------------------------------------------

ClsInit ==
    /\ \/ clsFn = "isSchemeSource" /\ clsInput \in SchemeInputs
       \/ clsFn = "isHostSource" /\ clsInput \in HostInputs
       \/ clsFn = "isNonceSource" /\ clsInput \in NonceInputs
       \/ clsFn = "isHashSource" /\ clsInput \in HashInputs
    /\ clsPc = "call" /\ clsResult = FALSE

InitCls == ClsInit /\ ParseIdle /\ REIdle /\ SrcIdle /\ LstIdle

\* The call of the classifier fn, which returns result
CallClassifier(fn, result) ==
    /\ clsPc = "call" /\ clsFn = fn
    /\ clsResult' = result
    /\ clsPc' = "done"
    /\ UNCHANGED <<clsFn, clsInput>>
    /\ UNCHANGED <<parseVars, reVars, srcVars, lstVars>>

CallIsSchemeSource == CallClassifier("isSchemeSource", isSchemeSource(clsInput))

CallIsHostSource == CallClassifier("isHostSource", isHostSource(clsInput))

CallIsNonceSource == CallClassifier("isNonceSource", isNonceSource(clsInput))

CallIsHashSource == CallClassifier("isHashSource", isHashSource(clsInput))

NextCls ==
    \/ CallIsSchemeSource
    \/ CallIsHostSource
    \/ CallIsNonceSource
    \/ CallIsHashSource

SpecCls == InitCls /\ [][NextCls]_vars

\* ------------------------------------------------------------------------
\* Properties
\* ------------------------------------------------------------------------

\* The names pc takes while control is in a case of the switch
Cases ==
    {"source-list", "block-all-mixed-content", "upgrade-insecure-requests",
     "frame-ancestors", "experimental", "plugin-types", "report-to", "report-uri",
     "sandbox", "webrtc", "unknown"}

\* The raw segments of a policy string
SegmentsOf(policy) == Split(policy, ";")

\* The case that a raw segment selects, "" for a segment that is skipped
CaseOf(raw) == IF TrimSpace(raw) = "" THEN "" ELSE Family(ToLower(KV(raw)[1]))

\* The entries of errs added by the step
NewErrs == SubSeq(errs', Len(errs) + 1, Len(errs'))

InSeq(x, seq) == \E k \in 1..Len(seq) : seq[k] = x

\* C1: Parse completes without a run-time panic, whatever the current URL, the
\* Reporting-Endpoints header and the policy strings are - a bare `webrtc` or a
\* bare `report-to` included.
C1_ParseNeverPanics == pc # "panic"

\* Control is back at the loop, at the next segment, and no error is lost
C2_Step ==
    /\ pc' = "directive"
    /\ i' = i + 1
    /\ Len(errs') >= Len(errs)
    /\ SubSeq(errs', 1, Len(errs)) = errs

\* C2: Parse never aborts on a failure: whatever the case of the switch does
\* with the directive, control returns to the loop at the next segment of the
\* policy, with every error recorded so far still in the error set.
C2_ParseNeverAborts == [][(pc \in Cases) => C2_Step]_vars

\* The variants of a source expression in the order the classifiers are tested
C3_Order ==
    <<"None", "SchemeSource", "HostSource", "KeywordSource", "NonceSource", "HashSource">>

C3_Accepts(variant, v) ==
    CASE variant = "None" -> v = "'none'"
      [] variant = "SchemeSource" -> isSchemeSource(v)
      [] variant = "HostSource" -> isHostSource(v)
      [] variant = "KeywordSource" -> isKeywordSource(v)
      [] variant = "NonceSource" -> isNonceSource(v)
      [] variant = "HashSource" -> isHashSource(v)

C3_Accepting(v) == {n \in 1..Len(C3_Order) : C3_Accepts(C3_Order[n], v)}

\* The entry with the one field of the variant set, every other field empty
C3_Entry(variant, v) ==
    [f \in DOMAIN SourceExpr |->
        IF f # variant THEN SourceExpr[f] ELSE IF f = "None" THEN TRUE ELSE v]

C3_Step(v) ==
    /\ srcI' = srcI + 1
    /\ IF C3_Accepting(v) = {}
       THEN /\ listItem' = listItem
            /\ srcErrs' = Append(srcErrs, Error(errCSP0100, <<srcKey, v>>))
       ELSE /\ listItem'.SourceExprs =
                   Append(listItem.SourceExprs, C3_Entry(C3_Order[Min(C3_Accepting(v))], v))
            /\ srcErrs' = srcErrs

\* C3: for each value token handleSourceExpr appends the token as the variant
\* of the first classifier, in the order 'none' (exact), scheme, host, keyword,
\* nonce, hash, that accepts it, and as no other variant; a token that none
\* accepts appends nothing and records one CSP-0100 error naming the directive
\* and the token; either way the next token is processed.
C3_FirstClassifierWins ==
    [][(srcPc = "loop" /\ srcI < Len(srcValues)) => C3_Step(srcValues[srcI + 1])]_vars

\* An invalid token, then a nonce: one error, one entry, the call returned
C3_Witness ==
    /\ srcPc = "done"
    /\ srcValues = <<"bad!", "'nonce-rAnd0m'">>
    /\ Len(srcErrs) = 1
    /\ listItem.SourceExprs = <<[SourceExpr EXCEPT !.NonceSource = "'nonce-rAnd0m'"]>>

\* Every value is valid for the directive of the case, and the directive has
\* the number of values it needs
C4_ValuesValid(case, vals, header) ==
    CASE case = "source-list" ->
            \A k \in 1..Len(vals) : C3_Accepting(vals[k]) # {}
      [] case = "frame-ancestors" ->
            \A k \in 1..Len(vals) :
                vals[k] = "'none'" \/ isSchemeSource(vals[k]) \/ isHostSource(vals[k])
      [] case = "plugin-types" -> \A k \in 1..Len(vals) : isMediaType(vals[k])
      [] case = "report-uri" -> \A k \in 1..Len(vals) : isValidReportingURL(vals[k])
      [] case = "sandbox" -> \A k \in 1..Len(vals) : isSandboxSource(vals[k])
      [] case = "webrtc" -> Len(vals) = 1 /\ isWebRTCSource(vals[1])
      [] case = "report-to" ->
            /\ Len(vals) = 1
            /\ ~ParseReportingEndpoint(header).panic
            /\ ParseReportingEndpoint(header).errs = <<>>
            /\ vals[1] \in DOMAIN ParseReportingEndpoint(header).values
      [] case \in {"", "upgrade-insecure-requests", "block-all-mixed-content",
                    "experimental"} -> TRUE
      [] OTHER -> FALSE

C4_SegmentValid(raw, header) ==
    C4_ValuesValid(CaseOf(raw), IF CaseOf(raw) = "" THEN <<>> ELSE Tail(KV(raw)), header)

\* The directive is one Parse reports as deprecated, obsolete or experimental
C4_Advised(raw) ==
    \/ CaseOf(raw) \in {"block-all-mixed-content", "experimental", "plugin-types",
                        "report-uri"}
    \/ (CaseOf(raw) = "source-list" /\ ToLower(KV(raw)[1]) = "child-src")

C4_AllSegments(P(_)) ==
    \A p \in 1..Len(policies) :
        \A k \in 1..Len(SegmentsOf(policies[p])) : P(SegmentsOf(policies[p])[k])

C4_NoFailures ==
    LET Valid(raw) == C4_SegmentValid(raw, reportingEndpointsHeader)
    IN  C4_AllSegments(Valid)

C4_NoAdvisories ==
    LET Plain(raw) == ~C4_Advised(raw)
    IN  currentURL # "" /\ reportingEndpointsHeader # "" /\ C4_AllSegments(Plain)

\* C4 as the specification states it: when every directive is a recognised
\* directive and every value is valid for its directive, Parse returns a nil
\* error.
C4_NilWithoutFailures == (pc = "done" /\ C4_NoFailures) => err.isNil

\* C4, amended: Parse returns a nil error when, besides there being no
\* validation failure, the current URL and the Reporting-Endpoints header are
\* not empty and no directive is one Parse reports as deprecated, obsolete or
\* experimental; and `script-src 'self' 'nonce-rAnd0m'` parsed so gives one
\* entry holding a keyword and a nonce.
C4_NilWithoutFailuresOrAdvisories ==
    /\ (pc = "done" /\ C4_NoFailures /\ C4_NoAdvisories) => err.isNil
    /\ (pc = "done" /\ C4_NoAdvisories /\ policies = <<"script-src 'self' 'nonce-rAnd0m'">>)
          => /\ err.isNil
             /\ Len(parsedPolicies) = 1
             /\ parsedPolicies[1].ScriptSource =
                    <<[SourceExprs |-> <<[SourceExpr EXCEPT !.KeywordSource = "'self'"],
                                         [SourceExpr EXCEPT !.NonceSource = "'nonce-rAnd0m'"]>>]>>

\* A valid source list and a resolved report-to, parsed with a nil error
C4_Witness ==
    /\ pc = "done"
    /\ currentURL # ""
    /\ policies = <<"script-src 'self' 'nonce-rAnd0m';report-to e1">>
    /\ reportingEndpointsHeader = "e1=\"https://a.io/r\""
    /\ Len(parsedPolicies[1].ReportTo) = 1
    /\ err.isNil

C5_IsUnknown(raw) == CaseOf(raw) = "unknown"

C5_IsKnown(raw) == ~C5_IsUnknown(raw)

RECURSIVE C5_Join(_)
C5_Join(raws) ==
    IF Len(raws) = 0 THEN ""
    ELSE IF Len(raws) = 1 THEN raws[1]
    ELSE raws[1] \o ";" \o C5_Join(Tail(raws))

\* The policy string without its unknown directives
C5_Without(policy) == C5_Join(SelectSeq(SegmentsOf(policy), C5_IsKnown))

\* The unknown directives of the policy strings from n on, in order
RECURSIVE C5_Unknowns(_, _)
C5_Unknowns(list, n) ==
    IF n > Len(list) THEN <<>>
    ELSE SelectSeq(SegmentsOf(list[n]), C5_IsUnknown) \o C5_Unknowns(list, n + 1)

C5_UnknownError(raw) == Error(errCSP0901, <<KV(raw)[1]>>)

C5_Is0901(e) == e.msg = errCSP0901

C5_IsNot0901(e) == e.msg # errCSP0901

C5_SameAsWithout(run, unknowns) ==
    /\ parsedPolicies = run.parsedPolicies
    /\ SelectSeq(errs, C5_IsNot0901) = run.errs
    /\ SelectSeq(errs, C5_Is0901) = [k \in 1..Len(unknowns) |-> C5_UnknownError(unknowns[k])]

\* C5: every directive whose lower-cased name is not recognised records exactly
\* one CSP-0901 error naming the directive as written, and nothing else: the
\* Policies and the other errors are those of the same policy strings with the
\* unknown directives taken out.
C5_UnknownDirectiveOnlyReported ==
    pc = "done" =>
        C5_SameAsWithout(ParseRun(currentURL, reportingEndpointsHeader,
                                  [p \in 1..Len(policies) |-> C5_Without(policies[p])]),
                         C5_Unknowns(policies, 1))

\* An unknown directive before a valid one in the same policy string
C5_Witness ==
    /\ pc = "done"
    /\ policies = <<"Foo-Bar baz;script-src 'self' 'nonce-rAnd0m'">>
    /\ Len(parsedPolicies[1].ScriptSource) = 1
    /\ InSeq(Error(errCSP0901, <<"Foo-Bar">>), errs)

\* The Policy field a raw segment appends to, "" when it appends to none of the
\* list fields C6 is about
C6_FieldOf(raw) ==
    CASE CaseOf(raw) = "source-list" -> SourceListField[ToLower(KV(raw)[1])]
      [] CaseOf(raw) = "frame-ancestors" -> "FrameAncestors"
      [] CaseOf(raw) = "plugin-types" -> "PluginTypes"
      [] CaseOf(raw) = "report-uri" -> "ReportURI"
      [] CaseOf(raw) = "sandbox" -> "Sandbox"
      [] OTHER -> ""

\* The entry the handler of the segment collects
C6_EntryOf(raw) ==
    CASE CaseOf(raw) = "source-list" -> handleSourceExpr(Tail(KV(raw)), KV(raw)[1]).item
      [] CaseOf(raw) = "frame-ancestors" -> handleAncestorExpr(Tail(KV(raw)), KV(raw)[1]).item
      [] CaseOf(raw) = "plugin-types" -> handlePluginTypes(Tail(KV(raw)), KV(raw)[1]).item
      [] CaseOf(raw) = "report-uri" -> handleReportingURLs(Tail(KV(raw)), KV(raw)[1]).item
      [] CaseOf(raw) = "sandbox" -> handleSandbox(Tail(KV(raw)), KV(raw)[1]).item

C6_ListFields ==
    {SourceListField[d] : d \in DOMAIN SourceListField}
        \cup {"FrameAncestors", "PluginTypes", "ReportURI", "Sandbox"}

\* The positions of raws that append to the field, in order
RECURSIVE C6_Occurrences(_, _, _)
C6_Occurrences(fields, field, n) ==
    IF n > Len(fields) THEN <<>>
    ELSE (IF fields[n] = field THEN <<n>> ELSE <<>>) \o C6_Occurrences(fields, field, n + 1)

C6_FieldHolds(policy, raws, field, at) ==
    policy[field] = [k \in 1..Len(at) |-> C6_EntryOf(raws[at[k]])]

C6_OneEntryEach(policy, raws, fields) ==
    \A field \in C6_ListFields :
        C6_FieldHolds(policy, raws, field, C6_Occurrences(fields, field, 1))

C6_PolicyHolds(policy, raws) ==
    C6_OneEntryEach(policy, raws, [k \in 1..Len(raws) |-> C6_FieldOf(raws[k])])

\* C6: at the head of the loop over a policy's directives, and in every Policy
\* returned, each list field holds exactly one entry per occurrence of its
\* directive so far, in order of appearance - the entry its handler collected,
\* empty when the occurrence had no value or only invalid ones.
C6_OneEntryPerOccurrence ==
    /\ pc = "directive" => C6_PolicyHolds(parsedPolicy, SubSeq(rawDirectives, 1, i))
    /\ pc = "done" =>
          \A p \in 1..Len(policies) :
              C6_PolicyHolds(parsedPolicies[p], SegmentsOf(policies[p]))

\* The same directive twice in one policy string, with no value either time:
\* two empty entries
C6_Witness ==
    /\ pc = "done"
    /\ policies = <<"style-src;style-src">>
    /\ parsedPolicies[1].StyleSource = <<[SourceExprs |-> <<>>], [SourceExprs |-> <<>>]>>

C7_Step ==
    /\ pc' = "directive"
    /\ IF Len(values) # 1 THEN InSeq(Error(errCSP0601, <<key>>), NewErrs)
       ELSE IF isWebRTCSource(values[1])
            THEN parsedPolicy'.WebRTC.Value = values[1] /\ errs' = errs
            ELSE /\ parsedPolicy'.WebRTC.Value = ""
                 /\ errs' = Append(errs, Error(errCSP0600, <<key, values[1]>>))

\* C7: a webrtc directive with one value that is 'allow' or 'block', in any
\* case, sets WebRTC.Value to the token and records no error; with no value or
\* with more than one it records CSP-0601; with one value that is neither
\* keyword it records CSP-0600 and leaves WebRTC.Value empty.
C7_WebRTCSingleValue == [][pc = "webrtc" => C7_Step]_vars

C8_Resolved(v, parsed) ==
    IF v \in DOMAIN parsed.values
    THEN /\ parsedPolicy'.ReportTo =
                Append(parsedPolicy.ReportTo, [Tokens |-> (v :> parsed.values[v])])
         /\ errs' = errs \o parsed.errs
    ELSE errs' = errs \o parsed.errs \o <<Error(errCSP0502, <<key, v>>)>>

C8_Step ==
    /\ pc' = "directive"
    /\ IF Len(values) # 1 THEN InSeq(Error(errCSP0501, <<key>>), NewErrs)
       ELSE C8_Resolved(values[1], ParseReportingEndpoint(reportingEndpointsHeader))

\* C8: a report-to directive with one value v adds every error of parsing the
\* Reporting-Endpoints header to the error set and, when v is a key of the
\* mapping, appends a ReportingRef whose Tokens is {v: url} and records no
\* CSP-0502, and otherwise records CSP-0502 naming v; with no value or with two
\* or more it records CSP-0501.
C8_ReportToResolution == [][pc = "report-to" => C8_Step]_vars

\* The checks of a trimmed token-pair in the order the specification lists
\* them: the message of the first that fails, "" when none fails.
C9_KeyAndValue(name, quoted) ==
    IF name = "" THEN errMissingKey
    ELSE IF ~isValidToken(name) THEN errInvalidKey
    ELSE IF quoted = "" THEN errMissingURL
    ELSE IF ~(At(quoted, 1) = "\"" /\ At(quoted, Len(quoted)) = "\"") THEN errNotQuoted
    ELSE IF ~isValidReportingURL(SubSeq(quoted, 2, Len(quoted) - 1)) THEN errInvalidURL
    ELSE ""

C9_FirstFailure(tokenPair) ==
    IF ~Contains(tokenPair, "=") THEN errNoEquals
    ELSE IF Contains(tokenPair, " ") THEN errMissingComma
    ELSE IF Len(Split(tokenPair, "=")) # 2 THEN errKeyOrValue
    ELSE C9_KeyAndValue(Split(tokenPair, "=")[1], Split(tokenPair, "=")[2])

C9_Stored(tokenPair) ==
    MapPut(reValues, Split(tokenPair, "=")[1],
           SubSeq(Split(tokenPair, "=")[2], 2, Len(Split(tokenPair, "=")[2]) - 1))

C9_Step(tokenPair) ==
    /\ rePc' = "pair" /\ reI' = reI + 1
    /\ IF tokenPair = "" THEN reValues' = reValues /\ reErrs' = reErrs
       ELSE IF C9_FirstFailure(tokenPair) = ""
            THEN reValues' = C9_Stored(tokenPair) /\ reErrs' = reErrs
            ELSE /\ reValues' = reValues
                 /\ reErrs' = Append(reErrs, Error(C9_FirstFailure(tokenPair), <<tokenPair>>))

\* C9: ParseReportingEndpoint skips an empty segment; stores a trimmed
\* token-pair as key -> value without its quotes iff it passes every check of
\* the validation sequence; for every other pair records exactly one error,
\* that of the first failing check, and stores nothing; and goes on to the
\* next pair in every case.
C9_ValidationSequence ==
    [][(rePc = "pair" /\ reI < Len(tokenPairList)) => C9_Step(TrimSpace(tokenPairList[reI + 1]))]_vars

\* C10: for every header ParseReportingEndpoint ends without a run-time panic,
\* a value part of a single character (only one double quote) included.
C10_ReportingEndpointNeverPanics == rePc # "panic"

\* The items of a header whose token-pairs are separated by single spaces
C11_Items(header) == Split(header, " ")

C11_WellFormed(item) == PairOutcome(item).kind = "store"

C11_LacksEquals(item) == item # "" /\ ~Contains(item, "=")

C11_SpaceSeparated(header) ==
    /\ ~Contains(header, ",")
    /\ \A k \in 1..Len(C11_Items(header)) :
          C11_WellFormed(C11_Items(header)[k]) \/ C11_LacksEquals(C11_Items(header)[k])

\* The mapping and the errors the items give when each is taken on its own
RECURSIVE C11_Expected(_, _, _)
C11_Expected(acc, items, n) ==
    IF n > Len(items) THEN acc
    ELSE IF C11_LacksEquals(items[n]) THEN
        C11_Expected([acc EXCEPT !.errs = Append(@, Error(errNoEquals, <<items[n]>>))],
                     items, n + 1)
    ELSE C11_Expected([acc EXCEPT !.values = (PairOutcome(items[n]).key :>
                                               PairOutcome(items[n]).url) @@ @],
                      items, n + 1)

C11_Holds(expected) == reValues = expected.values /\ reErrs = expected.errs

\* C11: a header of items separated by single spaces and no comma, each a
\* well-formed token-pair or an item without `=`, gives the mapping of the
\* well-formed pairs (the last URL of a key that appears twice) and one error
\* per item without `=`, naming that item; with only well-formed pairs the
\* error is nil.
C11_SpaceSeparatedAccepted ==
    (rePc = "done" /\ C11_SpaceSeparated(reHeader)) =>
        /\ C11_Holds(C11_Expected([values |-> <<>>, errs |-> <<>>], C11_Items(reHeader), 1))
        /\ reErr.isNil = (reErrs = <<>>)

C12_AllValid(list) ==
    /\ \A k \in 1..Len(list) : PairOutcome(list[k]).kind = "store"
    /\ \E k, l \in 1..Len(list) :
          /\ k < l
          /\ PairOutcome(list[k]).key = PairOutcome(list[l]).key

C12_Keys(list) == {PairOutcome(list[k]).key : k \in 1..Len(list)}

\* The URL of the last token-pair of the list that has the key
C12_LastURL(list, name) ==
    PairOutcome(list[Max({k \in 1..Len(list) : PairOutcome(list[k]).key = name})]).url

\* C12: when every comma-separated token-pair of the header is valid and two
\* of them carry the same key, the mapping has one entry per key, holding the
\* URL of the last pair with that key, and the error is nil.
C12_LastDuplicateWins ==
    (rePc = "done" /\ C12_AllValid(tokenPairList)) =>
        /\ DOMAIN reValues = C12_Keys(tokenPairList)
        /\ \A name \in DOMAIN reValues : reValues[name] = C12_LastURL(tokenPairList, name)
        /\ reErrs = <<>> /\ reErr.isNil

\* Two valid pairs with the key endpoint-1: the URL of the second is kept
C12_Witness ==
    /\ rePc = "done"
    /\ reHeader = "endpoint-1=\"https://example.com/reports\", endpoint-1=\"wss://b.io/r2\" "
    /\ reValues = ("endpoint-1" :> "wss://b.io/r2")
    /\ reErr.isNil

C13_Is0502(e) == e.msg = errCSP0502

\* C13: with an empty reportingEndpointsHeader Parse records CSP-0002 and no
\* report-to directive adds the undefined-reporting-endpoint error CSP-0502.
C13_EmptyHeaderDisablesReportTo ==
    (reportingEndpointsHeader = "" /\ pc \notin {"idle", "start"}) =>
        /\ InSeq(Error(errCSP0002, <<>>), errs)
        /\ SelectSeq(errs, C13_Is0502) = <<>>

\* The flag a flag directive sets and the errors it records, its values
\* playing no part
C14_Flag == IF pc = "upgrade-insecure-requests" THEN "UpgradeInsecureReq" ELSE "BlockAllMixedContent"

C14_Errors == IF pc = "upgrade-insecure-requests" THEN <<>> ELSE <<Error(errCSP0801, <<key>>)>>

C14_Step ==
    /\ parsedPolicy' = [parsedPolicy EXCEPT ![C14_Flag] = TRUE]
    /\ errs' = errs \o C14_Errors
    /\ pc' = "directive"

\* C14: upgrade-insecure-requests and block-all-mixed-content set their flag
\* of the Policy to true and leave every other field as it was; the tokens
\* after the name change neither the Policy nor the errors recorded, which
\* are those of the directive written without values.
C14_FlagDirectivesIgnoreValues ==
    [][(pc \in {"upgrade-insecure-requests", "block-all-mixed-content"}) => C14_Step]_vars

\* Both flags set by directives that carry values
C14_Witness ==
    /\ pc = "done"
    /\ policies = <<"upgrade-insecure-requests a;block-all-mixed-content x">>
    /\ parsedPolicies[1] = [Policy EXCEPT !.UpgradeInsecureReq = TRUE,
                                           !.BlockAllMixedContent = TRUE]
    /\ errs = ConfigAdvisories(currentURL, reportingEndpointsHeader)
                  \o <<Error(errCSP0801, <<"block-all-mixed-content">>)>>

C15_Deprecated == {"block-all-mixed-content", "child-src", "plugin-types", "report-uri"}

\* The entry and the errors of the handler of the directive's family, then
\* the one advisory
C15_Stored(field, h, advisory) ==
    /\ parsedPolicy' = [parsedPolicy EXCEPT ![field] = Append(@, h.item)]
    /\ errs' = errs \o h.errs \o <<Error(advisory, <<key>>)>>

C15_Step ==
    /\ pc' = "directive"
    /\ CASE ToLower(key) = "block-all-mixed-content" ->
              /\ parsedPolicy' = [parsedPolicy EXCEPT !.BlockAllMixedContent = TRUE]
              /\ errs' = Append(errs, Error(errCSP0801, <<key>>))
         [] ToLower(key) = "child-src" ->
              C15_Stored("ChildSource", handleSourceExpr(values, key), errCSP0802)
         [] ToLower(key) = "plugin-types" ->
              C15_Stored("PluginTypes", handlePluginTypes(values, key), errCSP0804)
         [] ToLower(key) = "report-uri" ->
              C15_Stored("ReportURI", handleReportingURLs(values, key), errCSP0805)

\* C15: each occurrence of block-all-mixed-content, child-src, plugin-types
\* or report-uri is validated and stored as its family's handler does it and
\* adds exactly one advisory after the handler's errors: CSP-0801, CSP-0802,
\* CSP-0804, CSP-0805 respectively.
C15_DeprecatedStillParsed ==
    [][((pc \in Cases) /\ ToLower(key) \in C15_Deprecated) => C15_Step]_vars

\* child-src 'self' stored as a source list, with CSP-0802 as the only error
\* of the directive
C15_Witness ==
    /\ pc = "done"
    /\ policies = <<"child-src 'self'">>
    /\ parsedPolicies[1].ChildSource =
           <<[SourceExprs |-> <<[SourceExpr EXCEPT !.KeywordSource = "'self'"]>>]>>
    /\ errs = ConfigAdvisories(currentURL, reportingEndpointsHeader)
                  \o <<Error(errCSP0802, <<"child-src">>)>>

\* The tokens of a segment: its maximal runs of characters that are not
\* whitespace; start is where the run being read began, 0 outside a run
RECURSIVE C16_TokensFrom(_, _, _)
C16_TokensFrom(s, start, k) ==
    IF k > Len(s) THEN (IF start = 0 THEN <<>> ELSE <<SubSeq(s, start, Len(s))>>)
    ELSE IF At(s, k) \in SPACE THEN
        (IF start = 0 THEN <<>> ELSE <<SubSeq(s, start, k - 1)>>) \o C16_TokensFrom(s, 0, k + 1)
    ELSE C16_TokensFrom(s, IF start = 0 THEN k ELSE start, k + 1)

C16_Tokens(raw) == C16_TokensFrom(raw, 0, 1)

RECURSIVE C16_Join(_, _)
C16_Join(seq, sep) ==
    IF Len(seq) = 0 THEN ""
    ELSE IF Len(seq) = 1 THEN seq[1]
    ELSE seq[1] \o sep \o C16_Join(Tail(seq), sep)

C16_NotBlank(raw) == C16_Tokens(raw) # <<>>

C16_Spaced(raws) == [k \in 1..Len(raws) |-> C16_Join(C16_Tokens(raws[k]), " ")]

\* The policy string with its blank segments dropped and the tokens of every
\* other segment separated by one space, nothing before or after them
C16_Canonical(policy) == C16_Join(C16_Spaced(SelectSeq(SegmentsOf(policy), C16_NotBlank)), ";")

C16_CanonicalList(list) == [k \in 1..Len(list) |-> C16_Canonical(list[k])]

C16_SameAs(run) == parsedPolicies = run.parsedPolicies /\ errs = run.errs

C17_Valid(v) == isValidReportingURL(v)

\* The errors an invalid value must carry: its sub-errors and the generic one
C17_Reported(v, url) ==
    /\ url.err => InSeq(Error(errCSP0401, <<key, v>>), NewErrs)
    /\ (~url.err /\ url.scheme = "") => InSeq(Error(errCSP0402, <<key, v>>), NewErrs)
    /\ (~url.err /\ url.fragment # "") => InSeq(Error(errCSP0403, <<key, v>>), NewErrs)
    /\ InSeq(Error(errCSP0400, <<key, v>>), NewErrs)

C17_Step ==
    /\ parsedPolicy'.ReportURI =
           Append(parsedPolicy.ReportURI, [URLs |-> SelectSeq(values, C17_Valid)])
    /\ \A k \in 1..Len(values) :
          ~C17_Valid(values[k]) => C17_Reported(values[k], urlParse(values[k]))

\* C17: a report-uri directive stores its valid values in order and nothing
\* for an invalid value, and records for every invalid value each sub-error
\* that applies (CSP-0401, CSP-0402, CSP-0403) and, in every case, CSP-0400.
C17_InvalidURLAlwaysGeneric == [][pc = "report-uri" => C17_Step]_vars

C18_IsPrefix(s, r) == Len(s) <= Len(r) /\ SubSeq(r, 1, Len(s)) = s

C18_Lists ==
    {SourceListField[d] : d \in DOMAIN SourceListField}
        \cup {"FrameAncestors", "PluginTypes", "ReportTo", "ReportURI", "Sandbox"}

C18_Step ==
    /\ \A f \in C18_Lists : C18_IsPrefix(parsedPolicy[f], parsedPolicy'[f])
    /\ parsedPolicy.BlockAllMixedContent => parsedPolicy'.BlockAllMixedContent
    /\ parsedPolicy.UpgradeInsecureReq => parsedPolicy'.UpgradeInsecureReq
    /\ parsedPolicy.WebRTC.Value # "" => parsedPolicy'.WebRTC = parsedPolicy.WebRTC

\* C18: while a policy string is parsed, a directive only adds to the
\* Policy: every list keeps the entries it has, a flag that is true stays
\* true and a WebRTC value that was set is not changed.
C18_PolicyAppendOnly == [][(pc \in Cases) => C18_Step]_vars

C19_SameAs(run) ==
    /\ parsedPolicies = run.parsedPolicies
    /\ errs = run.errs
    /\ err = ErrorOrNil(run.errs)

\* C19: what a call of Parse returns is a function of its three arguments
\* alone, whatever calls were made before it: two calls with the same
\* arguments return equal Policies and equal errors.
C19_Deterministic ==
    pc = "done" => C19_SameAs(ParseRun(currentURL, reportingEndpointsHeader, policies))

\* A second call, made after any first call, returns what the first call
\* with these arguments returns
C19_Witness ==
    /\ pc = "done" /\ calls = 2
    /\ policies = <<"style-src;report-to e1">>
    /\ reportingEndpointsHeader = "e1=\"https://a.io/r\""
    /\ currentURL = "https://example.com"
    /\ parsedPolicies =
           <<[Policy EXCEPT !.StyleSource = <<[SourceExprs |-> <<>>]>>,
                            !.ReportTo = <<[Tokens |-> ("e1" :> "https://a.io/r")]>>]>>
    /\ err.isNil

\* A current URL that is not the one of the call
C20_OtherURL == IF currentURL = "" THEN "https://example.com" ELSE ""

\* The Policy Parse returns for the policy string alone
C20_Alone(policy) ==
    ParseRun(C20_OtherURL, reportingEndpointsHeader, <<policy>>).parsedPolicies[1]

C23_InLanguage(s) ==
    /\ Len(s) >= 2
    /\ At(s, 1) \in ALPHA
    /\ At(s, Len(s)) = ":"
    /\ \A k \in 2..(Len(s) - 1) : At(s, k) \in ALNUM \cup {"+", ".", "-"}

\* C23: isSchemeSource(s) is true iff s is one ASCII letter, then letters,
\* digits, `+`, `.` or `-`, then a final `:`; any other character in the
\* scheme part makes it false.
C23_SchemeLanguage ==
    (clsPc = "done" /\ clsFn = "isSchemeSource") => (clsResult = C23_InLanguage(clsInput))

\* Four groups of one to three decimal digits separated by dots
C24_DottedQuad(s) ==
    /\ Len(Split(s, ".")) = 4
    /\ \A n \in 1..4 :
          /\ Len(Split(s, ".")[n]) \in 1..3
          /\ CharsOf(Split(s, ".")[n]) \subseteq DIGIT

\* C24: isHostSource is false for every bare dotted quad except 127.0.0.1,
\* for which it is true; so handleSourceExpr stores no other bare dotted quad
\* as a host-source.
C24_DottedQuadRejected ==
    (clsPc = "done" /\ clsFn = "isHostSource" /\ C24_DottedQuad(clsInput)) =>
        /\ clsResult = (clsInput = "127.0.0.1")
        /\ (SourceExprBranch(clsInput) = "HostSource") = (clsInput = "127.0.0.1")

\* A dotted quad that would match the host grammar is rejected
C24_Witness ==
    /\ clsPc = "done" /\ clsFn = "isHostSource"
    /\ clsInput = "127.0.0.127"
    /\ reHostSource(clsInput)
    /\ ~clsResult

\* The token is prefix, a value part of base64 characters that is not empty,
\* at most two `=`, and a closing quote
C25_NonEmptyValue(s, prefix) ==
    /\ QuotedBase64(s, prefix)
    /\ Len(s) > Len(prefix) + 1

C25_Prefixes ==
    IF clsFn = "isNonceSource" THEN {"'nonce-"} ELSE {"'sha256-", "'sha384-", "'sha512-"}

\* C25: isNonceSource and isHashSource are true iff the token matches its
\* pattern, without regard to case, and the part between the prefix and the
\* closing quote is not empty: the length guards reject the empty values and
\* nothing else.
C25_GuardsRejectOnlyEmpty ==
    (clsPc = "done" /\ clsFn \in {"isNonceSource", "isHashSource"}) =>
        (clsResult = (\E prefix \in C25_Prefixes : C25_NonEmptyValue(clsInput, prefix)))

\* The variants of the entry that are set
C21_Variants(e) ==
    {f \in DOMAIN SourceExpr : IF f = "None" THEN e[f] ELSE e[f] # ""}

C22_Step(v) ==
    LET stored(e) == /\ lstItem'.AncestorExprs = Append(lstItem.AncestorExprs, e)
                     /\ lstErrs' = lstErrs
        reported == /\ lstItem' = lstItem
                    /\ lstErrs' = Append(lstErrs, Error(errCSP0200, <<lstKey, v>>))
    IN  /\ IF v = "'none'" THEN stored([AncestorExpr EXCEPT !.None = TRUE])
           ELSE IF isSchemeSource(v) THEN stored([AncestorExpr EXCEPT !.SchemeSource = v])
           ELSE IF isHostSource(v) THEN stored([AncestorExpr EXCEPT !.HostSource = v])
           ELSE reported
        /\ (isKeywordSource(v) \/ isNonceSource(v) \/ isHashSource(v)) => reported

C22_Loop == lstHandler = "handleAncestorExpr" /\ lstPc = "loop" /\ lstI < Len(lstValues)

\* C22: frame-ancestors stores a token, in order, only if it is exactly
\* `'none'`, a scheme-source or a host-source, tried in that order; a keyword,
\* a nonce or a hash is not stored and records one CSP-0200 error naming the
\* directive and the token.
C22_AncestorsStoreNoneSchemeHost ==
    [][C22_Loop => C22_Step(lstValues[lstI + 1])]_vars

\* A keyword is reported, the host after it is stored
C22_Witness ==
    /\ lstHandler = "handleAncestorExpr" /\ lstPc = "done"
    /\ lstValues = <<"'self'", "example.com">>
    /\ lstItem.AncestorExprs = <<[AncestorExpr EXCEPT !.HostSource = "example.com"]>>
    /\ lstErrs = <<Error(errCSP0200, <<lstKey, "'self'">>)>>

\* The expressions the handler of a source list or of frame-ancestors accepts
C26_Valid(handler, v) ==
    \/ v = "'none'" \/ isSchemeSource(v) \/ isHostSource(v)
    \/ handler = "handleSourceExpr" /\ (isKeywordSource(v) \/ isNonceSource(v) \/ isHashSource(v))

C26_Entries ==
    IF lstHandler = "handleSourceExpr" THEN lstItem.SourceExprs ELSE lstItem.AncestorExprs

C26_Case ==
    /\ lstHandler \in {"handleSourceExpr", "handleAncestorExpr"} /\ lstPc = "done"
    /\ InSeq("'none'", lstValues)
    /\ \A n \in 1..Len(lstValues) : C26_Valid(lstHandler, lstValues[n])

\* C26: `'none'` together with other valid expressions, at any position and
\* any number of times, in a source list or in frame-ancestors records no
\* error; every expression is retained in order, each `'none'` as a None
\* marker.
C26_NoneIsNotExclusive ==
    C26_Case =>
        /\ lstErrs = <<>>
        /\ Len(C26_Entries) = Len(lstValues)
        /\ \A n \in 1..Len(lstValues) : C26_Entries[n].None = (lstValues[n] = "'none'")

\* A keyword, then `'none'`: both retained, no error
C26_Witness ==
    /\ C26_Case
    /\ lstHandler = "handleSourceExpr"
    /\ lstValues = <<"'self'", "'none'">>
    /\ lstItem.SourceExprs[1].KeywordSource = "'self'"
    /\ lstItem.SourceExprs[2].None

\* The tokens the handler accepts
C28_Accepted(v) ==
    CASE lstHandler \in {"handleSourceExpr", "handleAncestorExpr"} -> C26_Valid(lstHandler, v)
      [] lstHandler = "handlePluginTypes" -> isMediaType(v)
      [] lstHandler = "handleSandbox" -> isSandboxSource(v)

C28_Rejected(v) == ~C28_Accepted(v)

\* The invalid-value error of the handler
C28_Code ==
    CASE lstHandler = "handleSourceExpr" -> errCSP0100
      [] lstHandler = "handleAncestorExpr" -> errCSP0200
      [] lstHandler = "handlePluginTypes" -> errCSP0300
      [] lstHandler = "handleSandbox" -> errCSP0700

\* The token an expression was stored from
C28_TokenOf(e) ==
    IF e.None THEN "'none'"
    ELSE CHOOSE s \in {e[f] : f \in DOMAIN e \ {"None"}} : s # ""

\* The tokens stored, in the order of the collector
C28_Stored ==
    CASE lstHandler = "handleSourceExpr" ->
            [n \in 1..Len(lstItem.SourceExprs) |-> C28_TokenOf(lstItem.SourceExprs[n])]
      [] lstHandler = "handleAncestorExpr" ->
            [n \in 1..Len(lstItem.AncestorExprs) |-> C28_TokenOf(lstItem.AncestorExprs[n])]
      [] lstHandler = "handlePluginTypes" -> lstItem.MediaTypes
      [] lstHandler = "handleSandbox" -> lstItem.Allow

C28_Errors ==
    LET rejected == SelectSeq(lstValues, C28_Rejected)
    IN  [n \in 1..Len(rejected) |-> Error(C28_Code, <<lstKey, rejected[n]>>)]

\* C28: a value-list handler called with n tokens stores k entries and
\* records exactly n - k invalid-value errors: the entries are the accepted
\* tokens verbatim, in their order and with their duplicates, and the errors
\* name the rejected tokens, so no token is both stored and reported and none
\* is dropped.
C28_StoredPlusReported ==
    lstPc = "done" =>
        /\ C28_Stored = SelectSeq(lstValues, C28_Accepted)
        /\ lstErrs = C28_Errors
        /\ Len(C28_Stored) + Len(lstErrs) = Len(lstValues)

\* A flag in mixed case is stored as written and the invalid one reported
C28_Witness ==
    /\ lstHandler = "handleSandbox" /\ lstPc = "done"
    /\ lstValues = <<"Allow-Scripts", "bad">>
    /\ lstItem.Allow = <<"Allow-Scripts">>
    /\ Len(lstErrs) = 1

\* The trimmed token-pair has more than one `=`
C27_Case(tokenPair) == Len(Split(tokenPair, "=")) > 2

C27_Step(tokenPair) ==
    /\ reErrs' = Append(reErrs, Error(errCSP0512, <<tokenPair>>))
    /\ reValues' = reValues
    /\ rePc' = "pair" /\ reI' = reI + 1

C27_Pair == rePc = "pair" /\ reI < Len(tokenPairList)

\* C27: a token-pair with more than one `=`, such as one whose quoted URL has
\* a `=` in its query, is rejected with the error CSP-0512 (missing either a
\* key or value), is not stored, and the next pair is processed.
C27_MoreThanOneEquals ==
    [][(C27_Pair /\ C27_Case(TrimSpace(tokenPairList[reI + 1]))) =>
            C27_Step(TrimSpace(tokenPairList[reI + 1]))]_vars

\* The handler that loops over the values of a directive of the family
C29_Handler(fam) ==
    CASE fam = "source-list" -> "handleSourceExpr"
      [] fam = "frame-ancestors" -> "handleAncestorExpr"
      [] fam = "plugin-types" -> "handlePluginTypes"
      [] fam = "report-uri" -> "handleReportingURLs"
      [] fam = "sandbox" -> "handleSandbox"
      [] OTHER -> ""

C29_Empty ==
    [SourceExprs |-> <<>>, AncestorExprs |-> <<>>, MediaTypes |-> <<>>, URLs |-> <<>>,
     Allow |-> <<>>]

\* The errors of the tokens vs[n], vs[n + 1], ..., each token taken on its own
RECURSIVE C29_TokenErrs(_, _, _, _)
C29_TokenErrs(handler, k, vs, n) ==
    IF n > Len(vs) THEN <<>>
    ELSE HandlerCase(handler, [item |-> C29_Empty, errs |-> <<>>], vs[n], k).errs
             \o C29_TokenErrs(handler, k, vs, n + 1)

C29_SingleValue(fam, k, vs) ==
    IF fam = "report-to" /\ Len(vs) # 1 THEN <<Error(errCSP0501, <<k>>)>>
    ELSE IF fam = "webrtc" /\ Len(vs) # 1 THEN <<Error(errCSP0601, <<k>>)>>
    ELSE <<>>

C29_ValueErrs(fam, k, vs) ==
    IF C29_Handler(fam) # "" THEN C29_TokenErrs(C29_Handler(fam), k, vs, 1)
    ELSE IF fam = "report-to" /\ vs # <<>> THEN
        handleReportTo(vs[1], k, reportingEndpointsHeader).errs
    ELSE IF fam = "webrtc" /\ vs # <<>> THEN handleWebRTC(vs[1], k).errs
    ELSE IF fam = "unknown" THEN <<Error(errCSP0901, <<k>>)>>
    ELSE <<>>

C29_Advisory(fam, k) ==
    IF fam = "block-all-mixed-content" THEN <<Error(errCSP0801, <<k>>)>>
    ELSE IF ToLower(k) = "child-src" THEN <<Error(errCSP0802, <<k>>)>>
    ELSE IF fam = "experimental" THEN <<Error(errCSP0803, <<k>>)>>
    ELSE IF fam = "plugin-types" THEN <<Error(errCSP0804, <<k>>)>>
    ELSE IF fam = "report-uri" THEN <<Error(errCSP0805, <<k>>)>>
    ELSE <<>>

\* The errors of one segment: the single-value violation, the errors of the
\* values from left to right, the advisory
C29_DirectiveErrs(raw) ==
    IF CaseOf(raw) = "" THEN <<>>
    ELSE C29_SingleValue(CaseOf(raw), KV(raw)[1], Tail(KV(raw)))
             \o C29_ValueErrs(CaseOf(raw), KV(raw)[1], Tail(KV(raw)))
             \o C29_Advisory(CaseOf(raw), KV(raw)[1])

RECURSIVE C29_PolicyErrs(_, _)
C29_PolicyErrs(raws, n) ==
    IF n > Len(raws) THEN <<>>
    ELSE C29_DirectiveErrs(raws[n]) \o C29_PolicyErrs(raws, n + 1)

RECURSIVE C29_AllErrs(_)
C29_AllErrs(n) ==
    IF n > Len(policies) THEN <<>>
    ELSE C29_PolicyErrs(SegmentsOf(policies[n]), 1) \o C29_AllErrs(n + 1)

C29_Config ==
    (IF currentURL = "" THEN <<Error(errCSP0001, <<>>)>> ELSE <<>>)
        \o (IF reportingEndpointsHeader = "" THEN <<Error(errCSP0002, <<>>)>> ELSE <<>>)

C30_WebRTC ==
    /\ pc' = "directive"
    /\ parsedPolicy'.WebRTC.Value = (IF isWebRTCSource(values[1]) THEN values[1] ELSE "")
    /\ NewErrs = <<Error(errCSP0601, <<key>>)>>
                     \o (IF isWebRTCSource(values[1]) THEN <<>>
                         ELSE <<Error(errCSP0600, <<key, values[1]>>)>>)

C30_ReportTo(parsed) ==
    /\ pc' = "directive"
    /\ parsedPolicy'.ReportTo =
           Append(parsedPolicy.ReportTo,
                  [Tokens |-> IF values[1] \in DOMAIN parsed.values
                              THEN (values[1] :> parsed.values[values[1]]) ELSE <<>>])
    /\ NewErrs = <<Error(errCSP0501, <<key>>)>> \o parsed.errs
                     \o (IF values[1] \in DOMAIN parsed.values THEN <<>>
                         ELSE <<Error(errCSP0502, <<key, values[1]>>)>>)

C30_Step ==
    IF pc = "webrtc" THEN C30_WebRTC
    ELSE C30_ReportTo(ParseReportingEndpoint(reportingEndpointsHeader))

\* C30: webrtc or report-to with two or more values records the single-value
\* error and still processes the first value alone: WebRTC.Value becomes the
\* first value when it is valid, and a ReportingRef is appended for the first
\* endpoint name, with {name: url} when the name is defined.
C30_FirstValueStillProcessed ==
    [][((pc \in {"webrtc", "report-to"}) /\ Len(values) >= 2) => C30_Step]_vars

====
